---- MODULE Spec2Model ----
(***************************************************************************)
(* Model of the GB Agile tariff-spread forecast pipeline:                  *)
(*   fetch/fetch_bess_capacity.py  -> FES scenario fan, capacity series    *)
(*   analysis/2_bess_forecast.py   -> base-case capacity trajectory        *)
(*   analysis/3_spread_model.py    -> calibration artifact                 *)
(*   analysis/4_tariff_model.py    -> pass-through artifact                *)
(*   analysis/5_combined_forecast.py -> forecast table                     *)
(*                                                                         *)
(* Python floats are binary floating-point numbers.  They are modelled as  *)
(* pairs <<m, e>> standing for m * 2^e with a Prec-bit significand and     *)
(* round-to-nearest-even after every operation, exactly as IEEE-754 does   *)
(* at 53 bits.  Exponents are unbounded (no overflow/underflow).  The      *)
(* non-finite values nan, inf and -inf are three pairs no rounding yields. *)
(***************************************************************************)
EXTENDS Integers, Sequences, FiniteSets, TLC

VARIABLES
    pl,                \* one set of evaluations of power_law_spread
    sa,                \* one evaluation of seasonal_adjustment over the year
    fetcher,           \* the position and memory of a running fetch_elexon.py
    daily_wholesale_spread,       \* data/processed/daily_wholesale_spread.csv
    daily_elexon_wholesale,       \* data/processed/daily_elexon_wholesale.csv
    daily_wind_solar_generation,  \* data/processed/daily_wind_solar_generation.csv
    renewable_capacity_monthly,   \* data/processed/renewable_capacity_monthly.csv
    capacity_monthly,  \* data/processed/bess_capacity_monthly.csv
    fes_scenarios,     \* data/processed/bess_fes_scenarios.csv
    bess_forecast,     \* data/processed/bess_forecast.csv
    spread_params,     \* data/processed/spread_model_params.json
    tariff_params,     \* data/processed/tariff_model_params.json
    forecast,          \* data/processed/five_year_forecast.csv and the run that wrote it
    last_run           \* how the last run of each analysis script ended, and what it computed

\* The series the fetchers of market and generation data write.
daily == <<daily_wholesale_spread, daily_elexon_wholesale, daily_wind_solar_generation,
           renewable_capacity_monthly>>

files == <<daily, capacity_monthly, fes_scenarios, bess_forecast,
           spread_params, tariff_params, forecast, last_run>>

vars == <<pl, sa, fetcher, daily, capacity_monthly, fes_scenarios, bess_forecast,
          spread_params, tariff_params, forecast, last_run>>

\* A file that does not exist; a file that exists is the one-element
\* sequence holding its content.
Absent == <<>>

\* os.path.exists of the two daily spread series.
agile == daily_wholesale_spread # Absent

elexon == daily_elexon_wholesale # Absent

\* Width of the significand of a float (53 for a Python float).
Prec == 6

----------------------------------------------------------------------------
(* Floating-point arithmetic                                               *)

Abs(n) == IF n < 0 THEN -n ELSE n

Sgn(n) == IF n < 0 THEN -1 ELSE IF n = 0 THEN 0 ELSE 1

\* Number of binary digits of a natural number below 2^30.
BitLen(n) == CHOOSE k \in 0..30 : (n = 0 /\ k = 0) \/ (k > 0 /\ 2^(k - 1) <= n /\ (k = 30 \/ n < 2^k))

Zero == <<0, 0>>

\* The float nearest to n * 2^e (ties to the even significand).
Rnd(n, e) ==
    IF n = 0 THEN Zero
    ELSE LET a == Abs(n)
             k == BitLen(a)
         IN IF k <= Prec
            THEN <<Sgn(n) * a * 2^(Prec - k), e - (Prec - k)>>
            ELSE LET s    == k - Prec
                     q    == a \div 2^s
                     rem  == a % 2^s
                     half == 2^(s - 1)
                     q1   == IF rem > half \/ (rem = half /\ q % 2 = 1) THEN q + 1 ELSE q
                 IN IF q1 = 2^Prec
                    THEN <<Sgn(n) * 2^(Prec - 1), e + s + 1>>
                    ELSE <<Sgn(n) * q1, e + s>>

\* The float nearest to the rational (num / den) * 2^e, num >= 0, den > 0.
\* The quotient is taken with Prec + 2 digits and a sticky bit.
RndQ(num, den, e) ==
    IF num = 0 THEN Zero
    ELSE LET k == CHOOSE j \in 0..30 : num * 2^j >= den * 2^(Prec + 1)
                                       /\ (j = 0 \/ num * 2^(j - 1) < den * 2^(Prec + 1))
             q == (num * 2^k) \div den
             sticky == IF (num * 2^k) % den = 0 THEN 0 ELSE 1
         IN Rnd(2 * q + sticky, e - k - 1)

\* nan, inf and -inf: a zero significand with exponent 1, and unit
\* significands (every other float has a Prec-bit significand or is Zero).
NaN == <<0, 1>>

PosInf == <<1, 0>>

NegInf == <<-1, 0>>

IsInf(a) == a = PosInf \/ a = NegInf

IsFinite(a) == a # NaN /\ ~IsInf(a)

FNeg(a) == <<-a[1], a[2]>>

FAdd(a, b) ==
    IF a = NaN \/ b = NaN THEN NaN
    ELSE IF IsInf(a) THEN (IF IsInf(b) /\ b # a THEN NaN ELSE a)
    ELSE IF IsInf(b) THEN b
    ELSE IF a[1] = 0 THEN b
    ELSE IF b[1] = 0 THEN a
    ELSE LET hi == IF a[2] >= b[2] THEN a ELSE b
             lo == IF a[2] >= b[2] THEN b ELSE a
             gap == hi[2] - lo[2]
         IN IF gap > Prec + 2 THEN hi
            ELSE Rnd(hi[1] * 2^gap + lo[1], lo[2])

FSub(a, b) == FAdd(a, FNeg(b))

FMul(a, b) ==
    IF a = NaN \/ b = NaN THEN NaN
    ELSE IF IsInf(a) \/ IsInf(b)
         THEN (IF a = Zero \/ b = Zero THEN NaN
               ELSE IF Sgn(a[1]) * Sgn(b[1]) < 0 THEN NegInf ELSE PosInf)
    ELSE Rnd(a[1] * b[1], a[2] + b[2])

\* a / b as numpy divides float64 scalars: a zero divisor gives inf, -inf or
\* nan (with a RuntimeWarning), never an exception.
FDiv(a, b) ==
    IF a = NaN \/ b = NaN THEN NaN
    ELSE IF IsInf(a) THEN (IF IsInf(b) THEN NaN
                           ELSE IF Sgn(a[1]) * Sgn(b[1]) < 0 THEN NegInf ELSE PosInf)
    ELSE IF IsInf(b) THEN Zero
    ELSE IF b = Zero THEN (IF a = Zero THEN NaN ELSE IF a[1] < 0 THEN NegInf ELSE PosInf)
    ELSE LET r == RndQ(Abs(a[1]), Abs(b[1]), a[2] - b[2])
         IN IF Sgn(a[1]) * Sgn(b[1]) < 0 THEN FNeg(r) ELSE r

\* a < b; every comparison with nan is false.
FLt(a, b) ==
    IF a = NaN \/ b = NaN THEN FALSE
    ELSE IF IsInf(a) \/ IsInf(b) THEN a # b /\ (a = NegInf \/ b = PosInf)
    ELSE LET sga == Sgn(a[1])
             sgb == Sgn(b[1])
         IN IF sga # sgb THEN sga < sgb
            ELSE IF sga = 0 THEN FALSE
            ELSE IF sga = 1 THEN a[2] < b[2] \/ (a[2] = b[2] /\ a[1] < b[1])
            ELSE a[2] > b[2] \/ (a[2] = b[2] /\ a[1] < b[1])

FLe(a, b) == a # NaN /\ (a = b \/ FLt(a, b))

\* Python's max(a, b): a unless b is larger (so max(nan, b) is nan).
FMax(a, b) == IF FLt(a, b) THEN b ELSE a

\* A decimal literal n / 10^d (n >= 0) as the parser rounds it.
Dec(n, d) == RndQ(n, 10^d, 0)

\* An integer as a float.
FInt(n) == Rnd(n, 0)

----------------------------------------------------------------------------
(* Exact big naturals (little-endian digit sequences), used only to round  *)
(* the power function correctly.                                           *)

LimbBits == 18 - Prec

BB == 2^LimbBits

\* A digit vector given as a function on 1..n, as an explicit sequence.
BSeq(f, n) == SubSeq(f, 1, n)

\* One carry pass over a digit vector.
BPass(t) ==
    BSeq([i \in 1..Len(t) |-> (t[i] % BB) + (IF i > 1 THEN t[i - 1] \div BB ELSE 0)], Len(t))

\* Resolve the remaining unit carries of a vector with digits in 0..BB.
BRipple(f) ==
    IF \A j \in 1..Len(f) : f[j] < BB THEN f
    ELSE BSeq([i \in 1..Len(f) |->
                 LET c == IF \E j \in 1..(i - 1) :
                                f[j] >= BB /\ \A l \in (j + 1)..(i - 1) : f[l] = BB - 1
                          THEN 1 ELSE 0
                 IN (f[i] + c) % BB], Len(f))

BStrip(f) ==
    LET nz == {i \in 1..Len(f) : f[i] # 0}
        n  == IF nz = {} THEN 0 ELSE CHOOSE i \in nz : \A j \in nz : j <= i
    IN BSeq(f, n)

\* b * k for a small factor 0 < k <= 2^18.
BMul(b, k) ==
    LET t == BSeq([i \in 1..(Len(b) + 3) |-> IF i <= Len(b) THEN b[i] * k ELSE 0], Len(b) + 3)
    IN BStrip(BRipple(BPass(BPass(BPass(t)))))

\* k^n for 0 < k < 2^9.
RECURSIVE BPow(_, _)
BPow(k, n) ==
    IF n = 0 THEN <<1>>
    ELSE IF n = 1 THEN BMul(<<1>>, k)
    ELSE LET prev == BPow(k, n - 2)
         IN IF Len(prev) = 0 THEN prev ELSE BMul(prev, k * k)

\* b * 2^s.
BShl(b, s) == BSeq([i \in 1..(s \div LimbBits) |-> 0], s \div LimbBits) \o BMul(b, 2^(s % LimbBits))

BLe(a, b) ==
    IF Len(a) # Len(b) THEN Len(a) < Len(b)
    ELSE LET D == {i \in 1..Len(a) : a[i] # b[i]}
         IN IF D = {} THEN TRUE
            ELSE LET i == CHOOSE j \in D : \A l \in D : l <= j
                 IN a[i] < b[i]

\* -1, 0 or 1 as a * 2^d is below, equal to or above b (d may be negative).
BCmp(a, b, d) ==
    LET x == IF d >= 0 THEN BShl(a, d) ELSE a
        y == IF d >= 0 THEN b ELSE BShl(b, -d)
    IN IF x = y THEN 0 ELSE IF BLe(x, y) THEN -1 ELSE 1

----------------------------------------------------------------------------
(* The power function x ** alpha                                           *)

\* Exponents are carried in hundredths, as the decimal literals of the
\* source (0.46, 0.5, 0.65) are written.
Alphas == {25, 46, 50, 65, 100, 150}

RECURSIVE Gcd(_, _)
Gcd(a, b) == IF b = 0 THEN a ELSE Gcd(b, a % b)

AlphaP(h) == h \div Gcd(h, 100)

AlphaQ(h) == 100 \div Gcd(h, 100)

FloorDiv(a, b) == IF a >= 0 THEN a \div b ELSE -((-a + b - 1) \div b)

RLo == 2^(Prec + 1)

RHi == 2^(Prec + 2) - 1

\* r^q for every candidate significand r, and m^p for every significand m.
RootTab == [h \in Alphas |-> [r \in {1} \cup (RLo..RHi) |-> BPow(r, AlphaQ(h))]]

BaseTab == [h \in Alphas |-> [m \in 2^(Prec - 1)..(2^Prec - 1) |-> BPow(m, AlphaP(h))]]

\* (r * 2^f)^q compared with (m * 2^e)^p, where alpha = p / q.
PowCmp(r, f, m, e, h) ==
    BCmp(RootTab[h][r], BaseTab[h][m], f * AlphaQ(h) - e * AlphaP(h))

\* The largest r in lo..hi with (r * 2^f)^q <= (m * 2^e)^p, given that lo is one.
RECURSIVE RSearch(_, _, _, _, _, _)
RSearch(lo, hi, f, m, e, h) ==
    IF lo = hi THEN lo
    ELSE LET mid == (lo + hi + 1) \div 2
         IN IF PowCmp(mid, f, m, e, h) <= 0
            THEN RSearch(mid, hi, f, m, e, h)
            ELSE RSearch(lo, mid - 1, f, m, e, h)

\* (m * 2^e) ** (h / 100) for m > 0, correctly rounded.
PowRaw(m, e, h) ==
    LET p == AlphaP(h)
        q == AlphaQ(h)
        L == FloorDiv(p * (Prec - 1 + e), q)
        U == FloorDiv(p * (Prec + e), q)
        t == CHOOSE u \in L..U : PowCmp(1, u, m, e, h) <= 0
                                 /\ (u = U \/ PowCmp(1, u + 1, m, e, h) > 0)
        f == t - (Prec + 1)
        r == RSearch(RLo, RHi, f, m, e, h)
        sticky == IF PowCmp(r, f, m, e, h) = 0 THEN 0 ELSE 1
    IN Rnd(2 * r + sticky, f - 1)

\* Arguments whose powers are tabulated once (ratios between 2^-5 and 2^4).
TabExp == (-(Prec + 5))..(4 - Prec)

PowTab == [h \in Alphas |-> [e \in TabExp |-> [m \in 2^(Prec - 1)..(2^Prec - 1) |-> PowRaw(m, e, h)]]]

\* x ** alpha for alpha = h / 100 > 0, as numpy raises a float64 scalar to a
\* power: nan for a negative base, 0 for 0 and inf for inf.
FPow(x, h) ==
    IF x = NaN \/ x[1] < 0 THEN NaN
    ELSE IF x = PosInf THEN PosInf
    ELSE IF x = Zero THEN Zero
    ELSE IF x[2] \in TabExp THEN PowTab[h][x[2]][x[1]] ELSE PowRaw(x[1], x[2], h)


----------------------------------------------------------------------------
(* Pure functions of the analysis scripts                                  *)

One == FInt(1)

\* The same curve with the capacity ratio upside down.
power_law_spread_inverted(bess_gw, floor, spread_ref, bess_ref, alpha) ==
    FAdd(floor, FMul(FSub(spread_ref, floor), FPow(FDiv(bess_gw, bess_ref), alpha)))

\* The same curve without the floor term added back.
power_law_spread_nofloor(bess_gw, floor, spread_ref, bess_ref, alpha) ==
    FMul(FSub(spread_ref, floor), FPow(FDiv(bess_ref, bess_gw), alpha))

\* analysis/3_spread_model.py: power_law_spread
\*   floor + (spread_ref - floor) * (bess_ref / bess_gw) ** alpha
power_law_spread_calib(bess_gw, floor, spread_ref, bess_ref, alpha) ==
    FAdd(floor, FMul(FSub(spread_ref, floor), FPow(FDiv(bess_ref, bess_gw), alpha)))

\* analysis/5_combined_forecast.py: power_law_spread (the composer's copy)
power_law_spread(bess_gw, floor, spread_ref, bess_ref, alpha) ==
    FAdd(floor, FMul(FSub(spread_ref, floor), FPow(FDiv(bess_ref, bess_gw), alpha)))

\* dict.get(key, 0.0) on the month_coefs mapping (keys are month numbers).
CoefGet(month_coefs, m) == IF m \in DOMAIN month_coefs THEN month_coefs[m] ELSE Zero

\* numpy.mean of the twelve offsets [0.0, month_2, ..., month_12]: numpy adds
\* the first eight pairwise, then the remaining four in order, and divides.
MeanEffect(month_coefs) ==
    LET a(i) == IF i = 1 THEN Zero ELSE CoefGet(month_coefs, i)
        head == FAdd(FAdd(FAdd(a(1), a(2)), FAdd(a(3), a(4))),
                     FAdd(FAdd(a(5), a(6)), FAdd(a(7), a(8))))
        total == FAdd(FAdd(FAdd(FAdd(head, a(9)), a(10)), a(11)), a(12))
    IN FDiv(total, FInt(12))

\* The seasonal factor without centring on the annual mean offset.
seasonal_adjustment_uncentred(month, month_coefs, spread_ref) ==
    FAdd(One, FDiv(CoefGet(month_coefs, month), spread_ref))

\* analysis/5_combined_forecast.py: seasonal_adjustment
seasonal_adjustment(month, month_coefs, spread_ref) ==
    LET month_effect == CoefGet(month_coefs, month)
        avg_effect   == MeanEffect(month_coefs)
    IN FAdd(One, FDiv(FSub(month_effect, avg_effect), spread_ref))


----------------------------------------------------------------------------
(* Evaluations of the pure functions on bounded inputs                     *)

\* The floor calibrate_params computes: avg_price * rt_efficiency_loss.
CalibFloor == FMul(Dec(900, 1), Dec(15, 2))

PLFloors == {CalibFloor, Dec(135, 1), Dec(119, 1)}

PLSpreadRefs == {FInt(10), FInt(63), Dec(903, 1), FInt(120)}

PLBessRefs == {Dec(65, 1), FInt(7)}

\* Capacities in GW, up to 2^HugeExp GW where the power term is absorbed.
HugeExp == 30

PLCaps == {Dec(5, 1), FInt(5), Dec(65, 1), FInt(7), FInt(13), FInt(20), Dec(205, 1),
           Rnd(1, HugeExp), Rnd(1, HugeExp + 1)}

NoPL == [phase |-> "idle", floor |-> Zero, spread_ref |-> Zero, bess_ref |-> Zero, alpha |-> 50,
         c1 |-> Zero, c2 |-> Zero, s1 |-> Zero, s2 |-> Zero, anchor3 |-> Zero, anchor5 |-> Zero]

NoSA == [phase |-> "idle", month_coefs |-> <<>>, spread_ref |-> Zero,
         factors |-> [m \in 1..12 |-> Zero]]

\* fetch_elexon.py is not running.
NoFetch == [phase |-> "idle"]

\* No analysis script has run yet.
NotRun == [spread_model  |-> [status |-> "not run"],
           tariff_model  |-> [status |-> "not run"],
           composer      |-> [status |-> "not run"]]

FilesInit ==
    /\ daily_wholesale_spread = Absent
    /\ daily_elexon_wholesale = Absent
    /\ daily_wind_solar_generation = Absent
    /\ renewable_capacity_monthly = Absent
    /\ fetcher = NoFetch
    /\ last_run = NotRun
    /\ capacity_monthly = Absent
    /\ fes_scenarios = Absent
    /\ bess_forecast = Absent
    /\ spread_params = Absent
    /\ tariff_params = Absent
    /\ forecast = Absent

PLInit ==
    /\ pl \in {[NoPL EXCEPT !.phase = "input", !.floor = f, !.spread_ref = s, !.bess_ref = b,
                            !.alpha = a, !.c1 = c, !.c2 = d] :
                 f \in PLFloors, s \in PLSpreadRefs, b \in PLBessRefs, a \in Alphas,
                 c \in PLCaps, d \in PLCaps}
    /\ FLt(pl.c1, pl.c2)
    /\ sa = NoSA
    /\ FilesInit

\* Evaluate the curve at both capacities and at the anchor, with both copies.
EvalPowerLaw ==
    /\ pl.phase = "input"
    /\ pl' = [pl EXCEPT
                !.phase = "done",
                !.s1 = power_law_spread(pl.c1, pl.floor, pl.spread_ref, pl.bess_ref, pl.alpha),
                !.s2 = power_law_spread(pl.c2, pl.floor, pl.spread_ref, pl.bess_ref, pl.alpha),
                !.anchor3 = power_law_spread_calib(pl.bess_ref, pl.floor, pl.spread_ref,
                                                   pl.bess_ref, pl.alpha),
                !.anchor5 = power_law_spread(pl.bess_ref, pl.floor, pl.spread_ref,
                                             pl.bess_ref, pl.alpha)]
    /\ UNCHANGED <<sa, fetcher, files>>

PLNext == EvalPowerLaw

SpecPowerLaw == PLInit /\ [][PLNext]_vars

\* spread_ref > floor > 0 and bess_ref > 0 (the data-model invariant).
PLInvariantHolds ==
    /\ FLt(Zero, pl.floor)
    /\ FLt(pl.floor, pl.spread_ref)
    /\ FLt(Zero, pl.bess_ref)

\* |a - b| <= 2^k, computed exactly (a and b within 2^20 of each other's scale).
Within(a, b, k) ==
    LET lo == IF a[2] <= b[2] THEN (IF a[2] <= k THEN a[2] ELSE k)
              ELSE (IF b[2] <= k THEN b[2] ELSE k)
    IN Abs(a[1] * 2^(a[2] - lo) - b[1] * 2^(b[2] - lo)) <= 2^(k - lo)

MaxExp(a, b) == IF a[2] >= b[2] THEN a[2] ELSE b[2]


\* C1 (as claimed): under the data-model invariant and alpha > 0, the curve is
\* strictly decreasing in capacity: spread(c1) > spread(c2) for 0 < c1 < c2.
C1_StrictlyDecreasing ==
    (pl.phase = "done" /\ PLInvariantHolds /\ pl.alpha > 0) => FLt(pl.s2, pl.s1)

\* C1 (amended): under the data-model invariant and alpha > 0, the curve never
\* increases with capacity: spread(c1) >= spread(c2) for 0 < c1 < c2.
C1_NonIncreasing ==
    (pl.phase = "done" /\ PLInvariantHolds /\ pl.alpha > 0) => FLe(pl.s2, pl.s1)

\* A pair of capacities on which the curve has strictly decreased.
C1_Witness ==
    pl.phase = "done" /\ PLInvariantHolds /\ pl.alpha > 0 /\ FLt(pl.s2, pl.s1)

C3_StrictlyAboveFloor ==
    (pl.phase = "done" /\ PLInvariantHolds /\ pl.alpha > 0) =>
        (FLt(pl.floor, pl.s1) /\ FLt(pl.floor, pl.s2))

\* C3 (amended): under the invariant and alpha > 0 the curve never goes below
\* the floor.
C3_NeverBelowFloor ==
    (pl.phase = "done" /\ PLInvariantHolds /\ pl.alpha > 0) =>
        (FLe(pl.floor, pl.s1) /\ FLe(pl.floor, pl.s2))

\* An evaluation strictly above the floor beyond the reference capacity.
C3_Witness ==
    pl.phase = "done" /\ PLInvariantHolds /\ FLt(pl.bess_ref, pl.c1) /\ FLt(pl.floor, pl.s1)


----------------------------------------------------------------------------
(* Compression gained per step of capacity, on bounded inputs              *)

\* Steps of capacity in GW.
ConvexSteps == {Dec(5, 1), FInt(1), FInt(8)}

\* Capacities in GW whose sums with the steps are exact.
ConvexCaps == {Dec(5, 1), FInt(2), FInt(5), FInt(7), FInt(13), FInt(20),
               Rnd(1, HugeExp), Rnd(1, HugeExp + 1)}

ConvexInit ==
    /\ pl \in {[phase |-> "input", floor |-> f, spread_ref |-> s, bess_ref |-> b, alpha |-> a,
                c1 |-> c, c2 |-> e, d |-> d, s1 |-> Zero, gain1 |-> Zero, gain2 |-> Zero] :
                 f \in PLFloors, s \in PLSpreadRefs, b \in PLBessRefs, a \in Alphas,
                 c \in ConvexCaps, e \in ConvexCaps, d \in ConvexSteps}
    /\ FLt(pl.c1, pl.c2)
    /\ sa = NoSA
    /\ FilesInit

\* spread(c) - spread(c + d) with the calibration script's power_law_spread.
Compression(c, d, floor, spread_ref, bess_ref, alpha) ==
    FSub(power_law_spread_calib(c, floor, spread_ref, bess_ref, alpha),
         power_law_spread_calib(FAdd(c, d), floor, spread_ref, bess_ref, alpha))

\* Evaluate the compression gained by one step from each of the two capacities.
EvalCompression ==
    /\ pl.phase = "input"
    /\ pl' = [pl EXCEPT
                !.phase = "done",
                !.s1 = power_law_spread_calib(pl.c1, pl.floor, pl.spread_ref, pl.bess_ref,
                                              pl.alpha),
                !.gain1 = Compression(pl.c1, pl.d, pl.floor, pl.spread_ref, pl.bess_ref, pl.alpha),
                !.gain2 = Compression(pl.c2, pl.d, pl.floor, pl.spread_ref, pl.bess_ref, pl.alpha)]
    /\ UNCHANGED <<sa, fetcher, files>>

ConvexNext == EvalCompression

SpecConvex == ConvexInit /\ [][ConvexNext]_vars

\* a >= b - 2^k, computed exactly.
AtLeastWithin(a, b, k) ==
    LET lo == IF a[2] <= b[2] THEN (IF a[2] <= k THEN a[2] ELSE k)
              ELSE (IF b[2] <= k THEN b[2] ELSE k)
    IN a[1] * 2^(a[2] - lo) - b[1] * 2^(b[2] - lo) >= -(2^(k - lo))

----------------------------------------------------------------------------
(* Evaluations of seasonal_adjustment on bounded inputs                    *)

SABase == {Dec(15, 1), FInt(4), Dec(75, 1), FInt(11)}

SAShift == {0, 4, 7, 13}

SAKeys == {2..12, 2..6, {3, 9, 12}, {}, 1..12, {1, 7}}

\* Month offsets base * (m - shift) for the months that have a dummy.
SACoefs == {[m \in K |-> FMul(b, FInt(m - k))] : b \in SABase, k \in SAShift, K \in SAKeys}

SASpreadRefs == {FInt(63), Dec(903, 1), FInt(120), FNeg(FInt(63))}

SAInit ==
    /\ sa \in {[NoSA EXCEPT !.phase = "input", !.month_coefs = mc, !.spread_ref = s] :
                 mc \in SACoefs, s \in SASpreadRefs}
    /\ pl = NoPL
    /\ FilesInit

EvalSeason ==
    /\ sa.phase = "input"
    /\ sa' = [sa EXCEPT !.phase = "done",
                        !.factors = [m \in 1..12 |->
                                       seasonal_adjustment(m, sa.month_coefs, sa.spread_ref)]]
    /\ UNCHANGED <<pl, fetcher, files>>

SANext == EvalSeason

SpecSeason == SAInit /\ [][SANext]_vars

\* The least exponent among twelve floats, and their exact sum in units of 2^lo.
MinExp(fs) == CHOOSE e \in {fs[m][2] : m \in 1..12} : \A m \in 1..12 : e <= fs[m][2]

RECURSIVE SumScaled(_, _, _)
SumScaled(fs, lo, m) ==
    IF m = 0 THEN 0 ELSE fs[m][1] * 2^(fs[m][2] - lo) + SumScaled(fs, lo, m - 1)

\* The twelve factors add up to exactly 12.
MeanIsOne(fs) ==
    LET lo == MinExp(fs)
    IN IF lo <= 0 THEN SumScaled(fs, lo, 12) = 12 * 2^(-lo)
       ELSE SumScaled(fs, lo, 12) * 2^lo = 12

\* The offsets of the months 1..12 in a mapping, and the least exponent among
\* them and spread_ref.
Offset(month_coefs, m) == IF m \in DOMAIN month_coefs THEN month_coefs[m] ELSE Zero

RECURSIVE SumAbsScaled(_, _, _)
SumAbsScaled(month_coefs, lo, m) ==
    IF m = 0 THEN 0
    ELSE LET a == Offset(month_coefs, m)
         IN (IF a = Zero THEN 0 ELSE Abs(a[1]) * 2^(a[2] - lo)) + SumAbsScaled(month_coefs, lo, m - 1)

\* |mean - 1| <= 2 * 2^-Prec * (1 + sum|offset| / |spread_ref|), exactly.
MeanNearOne(fs, month_coefs, spread_ref) ==
    LET lo   == MinExp(fs)
        dev  == IF lo <= 0 THEN Abs(SumScaled(fs, lo, 12) - 12 * 2^(-lo))
                ELSE Abs(SumScaled(fs, lo, 12) * 2^lo - 12)
        dlo  == IF lo <= 0 THEN lo ELSE 0
        exps == {spread_ref[2]} \cup
                {Offset(month_coefs, m)[2] : m \in {k \in 1..12 : Offset(month_coefs, k) # Zero}}
        lo2  == CHOOSE e \in exps : \A x \in exps : e <= x
        r    == Abs(spread_ref[1]) * 2^(spread_ref[2] - lo2)
        x    == SumAbsScaled(month_coefs, lo2, 12)
        sh   == dlo + Prec
    IN IF sh >= 0 THEN dev * r * 2^sh <= 24 * (r + x)
       ELSE dev * r <= 24 * (r + x) * 2^(-sh)

----------------------------------------------------------------------------
(* Calendar months and tables                                              *)

\* A month as a number: year * 12 + (month - 1).
YM(year, month) == year * 12 + (month - 1)

MonthOf(date) == (date % 12) + 1

YearOf(date) == date \div 12

\* A table given as a function on 1..n, as an explicit sequence of rows.
Rows(f, n) == SubSeq(f, 1, n)

\* None, and a missing cell in a table (a float is a pair).
NoneVal == <<>>

----------------------------------------------------------------------------
(* fetch/fetch_bess_capacity.py                                            *)

\* KNOWN_CAPACITY_GW as <<year, month, GW in tenths>>, in key order.
KNOWN_CAPACITY_GW ==
    << <<2017, 12, 3>>,  <<2018, 6, 5>>,  <<2018, 12, 7>>,  <<2019, 6, 8>>,
       <<2019, 12, 10>>, <<2020, 6, 11>>, <<2020, 12, 13>>, <<2021, 6, 15>>,
       <<2021, 12, 18>>, <<2022, 6, 21>>, <<2022, 12, 25>>, <<2023, 6, 30>>,
       <<2023, 12, 36>>, <<2024, 6, 45>>, <<2024, 12, 55>>, <<2025, 6, 65>>,
       <<2025, 12, 75>> >>

\* FES_PROJECTIONS as <<year, LW, CT, ST, FS>> with GW in tenths, in key order.
FES_PROJECTIONS ==
    << <<2025, 75, 70, 65, 60>>,     <<2026, 100, 90, 85, 75>>,
       <<2027, 130, 115, 105, 90>>,  <<2028, 160, 140, 125, 105>>,
       <<2029, 190, 165, 150, 120>>, <<2030, 220, 190, 170, 135>>,
       <<2031, 240, 210, 190, 150>>, <<2032, 260, 230, 210, 165>>,
       <<2033, 280, 250, 225, 175>>, <<2034, 300, 265, 240, 185>>,
       <<2035, 320, 280, 255, 195>> >>

FES_SCENARIOS == <<"leading_the_way", "consumer_transformation",
                   "system_transformation", "falling_short">>

\* interpolate(method="linear"): the value k steps into a gap of n steps
\* between two known values, slope * k + v0.
Interp(v0, v1, k, n) == FAdd(FMul(FDiv(FSub(v1, v0), FInt(n)), FInt(k)), v0)

KnownDate(i) == YM(KNOWN_CAPACITY_GW[i][1], KNOWN_CAPACITY_GW[i][2])

KnownValue(i) == Dec(KNOWN_CAPACITY_GW[i][3], 1)

\* Rows (date, bess_capacity_gw) for every month from the first known point to
\* the last.
build_historic_monthly ==
    LET n     == Len(KNOWN_CAPACITY_GW)
        first == KnownDate(1)
        count == KnownDate(n) - first + 1
    IN Rows([i \in 1..count |->
               LET d == first + i - 1
                   j == CHOOSE k \in 1..n : KnownDate(k) <= d /\ (k = n \/ d < KnownDate(k + 1))
               IN [date |-> d,
                   bess_capacity_gw |->
                       IF d = KnownDate(j) THEN KnownValue(j)
                       ELSE Interp(KnownValue(j), KnownValue(j + 1),
                                   d - KnownDate(j), KnownDate(j + 1) - KnownDate(j))]],
            count)

FesYears == {FES_PROJECTIONS[i][1] : i \in 1..Len(FES_PROJECTIONS)}

FesRow(year) == FES_PROJECTIONS[CHOOSE i \in 1..Len(FES_PROJECTIONS) : FES_PROJECTIONS[i][1] = year]

\* values[i] for the scenario at position len - i: the tuple read backwards.
FesAnnualReversed(year, scenario) ==
    LET i == CHOOSE k \in 1..Len(FES_SCENARIOS) : FES_SCENARIOS[k] = scenario
    IN Dec(FesRow(year)[1 + (Len(FES_SCENARIOS) + 1 - i)], 1)

\* values[i] for the scenario at position i of FES_SCENARIOS.
FesAnnual(year, scenario) ==
    LET i == CHOOSE k \in 1..Len(FES_SCENARIOS) : FES_SCENARIOS[k] = scenario
    IN Dec(FesRow(year)[1 + i], 1)

\* The monthly capacity of every scenario, by scenario and date.
build_fes_projections ==
    LET first == CHOOSE y \in FesYears : \A z \in FesYears : y <= z
        last  == CHOOSE y \in FesYears : \A z \in FesYears : z <= y
    IN [scenario \in {FES_SCENARIOS[i] : i \in 1..Len(FES_SCENARIOS)} |->
          [date \in YM(first, 1)..YM(last, 1) |->
             LET y == YearOf(date)
                 k == date - YM(y, 1)
             IN IF k = 0 THEN FesAnnual(y, scenario)
                ELSE Interp(FesAnnual(y, scenario), FesAnnual(y + 1, scenario), k, 12)]]

\* The combined series with Consumer Transformation as the base case.
CombinedSeriesConsumerBase ==
    LET historic     == build_historic_monthly
        hist_max     == historic[Len(historic)].date
        st           == build_fes_projections["consumer_transformation"]
        future_dates == {d \in DOMAIN st : d > hist_max}
        nf           == Cardinality(future_dates)
        first        == CHOOSE d \in future_dates : \A x \in future_dates : d <= x
    IN Rows([i \in 1..Len(historic) |->
               [date |-> historic[i].date,
                bess_capacity_gw |-> historic[i].bess_capacity_gw,
                source |-> "historic"]], Len(historic))
       \o (IF nf = 0 THEN <<>>
           ELSE Rows([i \in 1..nf |->
                        [date |-> first + i - 1,
                         bess_capacity_gw |-> st[first + i - 1],
                         source |-> "fes_consumer_transformation"]], nf))

\* main: the historic series followed by the System Transformation months
\* after it, and the scenario table.
CombinedSeries ==
    LET historic     == build_historic_monthly
        hist_max     == historic[Len(historic)].date
        st           == build_fes_projections["system_transformation"]
        future_dates == {d \in DOMAIN st : d > hist_max}
        nf           == Cardinality(future_dates)
        first        == CHOOSE d \in future_dates : \A x \in future_dates : d <= x
    IN Rows([i \in 1..Len(historic) |->
               [date |-> historic[i].date,
                bess_capacity_gw |-> historic[i].bess_capacity_gw,
                source |-> "historic"]], Len(historic))
       \o (IF nf = 0 THEN <<>>
           ELSE Rows([i \in 1..nf |->
                        [date |-> first + i - 1,
                         bess_capacity_gw |-> st[first + i - 1],
                         source |-> "fes_system_transformation"]], nf))

FetchBessCapacity ==
    /\ capacity_monthly' = <<CombinedSeries>>
    /\ fes_scenarios' = <<build_fes_projections>>
    /\ UNCHANGED <<pl, sa, fetcher, daily, bess_forecast, spread_params, tariff_params, forecast,
                   last_run>>

----------------------------------------------------------------------------
(* fetch/fetch_agile.py, fetch/fetch_elexon.py                             *)

\* A calendar day: its month and its day of the month.
Day(year, month, d) == <<YM(year, month), d>>

\* One row of daily_wholesale_spread.csv (the columns the analysis reads).
AgileRow(year, month, d, spread, price) ==
    [date |-> Day(year, month, d), spread_max_min |-> FInt(spread), price_mean |-> FInt(price)]

\* One row of daily_elexon_wholesale.csv.
ElexonRow(year, month, d, spread, price) ==
    [date |-> Day(year, month, d), wholesale_spread |-> FInt(spread),
     wholesale_mean |-> FInt(price)]

\* The daily tables calculate_daily_spread can return: days of June to
\* December 2025 and one day of January 2026.
AgileSeries ==
    { << AgileRow(2025, 6, 1, 56, 150),  AgileRow(2025, 6, 15, 60, 152),
         AgileRow(2025, 7, 1, 61, 149),  AgileRow(2025, 8, 1, 66, 151),
         AgileRow(2025, 9, 1, 70, 155),  AgileRow(2025, 10, 1, 64, 158),
         AgileRow(2025, 11, 1, 59, 160), AgileRow(2025, 12, 1, 63, 161),
         AgileRow(2026, 1, 1, 62, 159) >> }

\* What the Elexon API can serve: the market index as daily rows and the days
\* with wind generation.  Either part can be empty.
ElexonData ==
    { [market |-> << ElexonRow(2024, 12, 1, 11, 90), ElexonRow(2024, 12, 15, 13, 92),
                     ElexonRow(2025, 1, 1, 8, 95),   ElexonRow(2025, 1, 15, 10, 97),
                     ElexonRow(2025, 2, 1, 9, 91),   ElexonRow(2025, 2, 15, 11, 89),
                     ElexonRow(2025, 3, 1, 10, 88),  ElexonRow(2025, 3, 15, 12, 86),
                     ElexonRow(2025, 4, 1, 9, 85),   ElexonRow(2025, 4, 15, 11, 87),
                     ElexonRow(2025, 5, 1, 8, 84),   ElexonRow(2025, 5, 15, 10, 86),
                     ElexonRow(2025, 6, 1, 10, 83),  ElexonRow(2025, 6, 15, 12, 85) >>,
       generation |-> {Day(y, m, d) : y \in {2024, 2025}, m \in 1..12, d \in {1, 15}}],
      [market |-> <<>>,
       generation |-> {Day(y, m, d) : y \in {2024, 2025}, m \in 1..12, d \in {1, 15}}],
      [market |-> << ElexonRow(2026, 2, 1, 40, 90), ElexonRow(2026, 2, 2, 44, 91) >>,
       generation |-> {}] }

\* main writes daily_wholesale_spread.csv.
FetchAgile ==
    /\ \E series \in AgileSeries : daily_wholesale_spread' = <<series>>
    /\ UNCHANGED <<pl, sa, fetcher, daily_elexon_wholesale, daily_wind_solar_generation,
                   renewable_capacity_monthly,
                   capacity_monthly, fes_scenarios, bess_forecast,
                   spread_params, tariff_params, forecast, last_run>>

\* main: process_generation writes daily_wind_solar_generation.csv when there
\* is generation data, and process_market_index writes
\* daily_elexon_wholesale.csv when there is market data.
FetchElexon ==
    /\ \E data \in ElexonData :
          /\ daily_wind_solar_generation' =
                IF data.generation = {} THEN daily_wind_solar_generation
                ELSE <<data.generation>>
          /\ daily_elexon_wholesale' =
                IF data.market = <<>> THEN daily_elexon_wholesale ELSE <<data.market>>
    /\ UNCHANGED <<pl, sa, fetcher, daily_wholesale_spread, renewable_capacity_monthly,
                   capacity_monthly, fes_scenarios,
                   bess_forecast, spread_params, tariff_params, forecast, last_run>>

----------------------------------------------------------------------------
(* fetch/fetch_renewables.py                                               *)

\* The last rows of KNOWN_CAPACITY: year, quarter, onshore and offshore wind
\* in tenths of a GW (the composer reads the last row of the file only).
KNOWN_CAPACITY ==
    << <<2024, 4, 155, 155>>,
       <<2025, 1, 156, 159>>,
       <<2025, 2, 157, 163>>,
       <<2025, 3, 158, 168>>,
       <<2025, 4, 159, 172>> >>

\* The quarter's row: dated the first day of the quarter's last month.
KnownWind(i) ==
    [date          |-> YM(KNOWN_CAPACITY[i][1], KNOWN_CAPACITY[i][2] * 3),
     total_wind_gw |-> FAdd(Dec(KNOWN_CAPACITY[i][3], 1), Dec(KNOWN_CAPACITY[i][4], 1))]

\* build_from_known_data: the quarterly points interpolated to months.
build_from_known_data ==
    LET first == KnownWind(1).date
        last  == KnownWind(Len(KNOWN_CAPACITY)).date
        Seg(d) == CHOOSE i \in 1..Len(KNOWN_CAPACITY) :
                     /\ KnownWind(i).date <= d
                     /\ (i = Len(KNOWN_CAPACITY) \/ d < KnownWind(i + 1).date)
    IN Rows([k \in 1..(last - first + 1) |->
               [date |-> first + k - 1,
                total_wind_gw |->
                   IF Seg(first + k - 1) = Len(KNOWN_CAPACITY)
                   THEN KnownWind(Len(KNOWN_CAPACITY)).total_wind_gw
                   ELSE Interp(KnownWind(Seg(first + k - 1)).total_wind_gw,
                               KnownWind(Seg(first + k - 1) + 1).total_wind_gw,
                               first + k - 1 - KnownWind(Seg(first + k - 1)).date, 3)]],
            last - first + 1)

----------------------------------------------------------------------------
(* analysis/2_bess_forecast.py                                             *)

forecast_start == YM(2026, 1)

forecast_end == YM(2030, 12)

\* main: the months of the capacity series in the forecast window, or the
\* System Transformation months when the series has none.
BessForecast ==
    /\ capacity_monthly # Absent
    /\ LET bess == capacity_monthly[1]
           InWindow(r) == forecast_start <= r.date /\ r.date <= forecast_end
           direct == SelectSeq(bess, InWindow)
           st == fes_scenarios[1]["system_transformation"]
           fallback == Rows([i \in 1..(forecast_end - forecast_start + 1) |->
                               [date |-> forecast_start + i - 1,
                                bess_capacity_gw |-> st[forecast_start + i - 1]]],
                            forecast_end - forecast_start + 1)
       IN bess_forecast' = <<IF direct = <<>> /\ fes_scenarios # Absent THEN fallback ELSE direct>>
    /\ UNCHANGED <<pl, sa, fetcher, daily, capacity_monthly, fes_scenarios,
                   spread_params, tariff_params, forecast, last_run>>

----------------------------------------------------------------------------
(* analysis/3_spread_model.py                                              *)

\* bess_lookup[year_month]: the capacity of the historic row of that month,
\* NaN when there is none.
bess_lookup(capacity, year_month) ==
    LET hits == {i \in 1..Len(capacity) : capacity[i].source = "historic"
                                           /\ capacity[i].date = year_month}
    IN IF hits = {} THEN NoneVal ELSE capacity[CHOOSE i \in hits : TRUE].bess_capacity_gw

\* The spread series load_and_merge reads: Elexon's if the file exists, the
\* Agile-derived one otherwise, with the name of its spread column.
SpreadSeries(elexon_file, agile_file) ==
    IF elexon_file # Absent
    THEN Rows([i \in 1..Len(elexon_file[1]) |->
                 [date |-> elexon_file[1][i].date, spread |-> elexon_file[1][i].wholesale_spread]],
              Len(elexon_file[1]))
    ELSE Rows([i \in 1..Len(agile_file[1]) |->
                 [date |-> agile_file[1][i].date, spread |-> agile_file[1][i].spread_max_min]],
              Len(agile_file[1]))

\* One day of the merged panel with the capacity of the nearest month start
\* (the next month's from the 15th on) instead of its own month's.
MergedRowNearestMonth(r, capacity, generation) ==
    [date     |-> r.date,
     spread   |-> r.spread,
     bess_gw  |-> bess_lookup(capacity, IF r.date[2] > 14 THEN r.date[1] + 1 ELSE r.date[1]),
     has_wind |-> generation # Absent /\ r.date \in generation[1],
     month    |-> MonthOf(r.date[1]),
     year     |-> YearOf(r.date[1])]

\* One day of the merged panel: its month's capacity, and whether the
\* generation file has wind for the day (wind_gen_gw is NaN otherwise).
MergedRow(r, capacity, generation) ==
    [date     |-> r.date,
     spread   |-> r.spread,
     bess_gw  |-> bess_lookup(capacity, r.date[1]),
     has_wind |-> generation # Absent /\ r.date \in generation[1],
     month    |-> MonthOf(r.date[1]),
     year     |-> YearOf(r.date[1])]

\* The merge without the final dropna on bess_gw.
load_and_merge_keep_unmatched(elexon_file, agile_file, capacity, generation) ==
    [df |-> Rows([i \in 1..Len(SpreadSeries(elexon_file, agile_file)) |->
                    MergedRow(SpreadSeries(elexon_file, agile_file)[i], capacity, generation)],
                 Len(SpreadSeries(elexon_file, agile_file))),
     spread_col |-> IF elexon_file # Absent THEN "wholesale_spread" ELSE "spread_max_min"]

\* load_and_merge: the days of the spread series whose month has a historic
\* capacity, each with that capacity.
load_and_merge(elexon_file, agile_file, capacity, generation) ==
    LET HasCapacity(r) == r.bess_gw # NoneVal
    IN [df |-> SelectSeq(Rows([i \in 1..Len(SpreadSeries(elexon_file, agile_file)) |->
                                 MergedRow(SpreadSeries(elexon_file, agile_file)[i],
                                           capacity, generation)],
                              Len(SpreadSeries(elexon_file, agile_file))),
                         HasCapacity),
        spread_col |-> IF elexon_file # Absent THEN "wholesale_spread" ELSE "spread_max_min"]

\* The elements of a finite set of integers in ascending order.
Ascending(S) ==
    Rows([k \in 1..Cardinality(S) |-> CHOOSE x \in S : Cardinality({y \in S : y < x}) = k - 1],
         Cardinality(S))

\* The least element of a non-empty set of integers.
Least(S) == CHOOSE x \in S : \A y \in S : x <= y

\* The slopes of the month offsets a regression can return (the offsets are
\* the rounded values slope * (month - 7)).
OlsSlopes == {FNeg(FInt(9))}

\* run_ols: the regressors are the constant, bess_gw, wind_gen_gw when more
\* than half of the days have it, weekend, a dummy for every month but the
\* first and, if asked, for every year but the first; the observations are
\* the days with every feature.  The fit (a least-squares solution by
\* pseudo-inverse) fails only on an empty sample.
run_ols(df, include_year_dummies, slope) ==
    LET wind_ok    == 2 * Cardinality({i \in 1..Len(df) : df[i].has_wind}) > Len(df)
        months     == {df[i].month : i \in 1..Len(df)}
        years      == {df[i].year : i \in 1..Len(df)}
        Complete(r) == (wind_ok => r.has_wind) /\ r.bess_gw # NoneVal
        nobs       == Len(SelectSeq(df, Complete))
        regressors == {<<"const", 0>>, <<"bess_gw", 0>>, <<"weekend", 0>>}
                      \cup (IF wind_ok THEN {<<"wind_gen_gw", 0>>} ELSE {})
                      \cup {<<"month", m>> : m \in {x \in months : x # Least(months)}}
                      \cup (IF include_year_dummies
                            THEN {<<"year", y>> : y \in {x \in years : x # Least(years)}}
                            ELSE {})
    IN IF nobs = 0
       THEN [status |-> "ValueError", nobs |-> nobs, regressors |-> regressors]
       ELSE [status |-> "ok", nobs |-> nobs, regressors |-> regressors,
             month_coefs |-> [m \in {x \in months : x # Least(months)} |->
                                FMul(slope, FInt(m - 7))]]

\* Series.mean() of fewer than eight values: added in order, then divided.
RECURSIVE SeqSum(_, _)
SeqSum(xs, n) == IF n = 0 THEN Zero ELSE IF n = 1 THEN xs[1] ELSE FAdd(SeqSum(xs, n - 1), xs[n])

SeqMean(xs) == FDiv(SeqSum(xs, Len(xs)), FInt(Len(xs)))

\* fit_power_law: one row per month of the merged panel, in month order, with
\* the means of capacity and spread over the month's days; dropna() removes
\* the months without any wind value (their mean wind is NaN).
fit_power_law(df) ==
    LET months == Ascending({df[i].date[1] : i \in 1..Len(df)})
        Group(ym) == LET InMonth(r) == r.date[1] = ym IN SelectSeq(df, InMonth)
        HasValue(x) == x # NoneVal
        Monthly(ym) ==
            [year_month |-> ym,
             bess_gw  |-> LET xs == SelectSeq(Rows([i \in 1..Len(Group(ym)) |-> Group(ym)[i].bess_gw],
                                                    Len(Group(ym))), HasValue)
                          IN IF xs = <<>> THEN NoneVal ELSE SeqMean(xs),
             spread   |-> SeqMean(Rows([i \in 1..Len(Group(ym)) |-> Group(ym)[i].spread],
                                       Len(Group(ym)))),
             has_wind |-> \E i \in 1..Len(Group(ym)) : Group(ym)[i].has_wind,
             n_days   |-> Len(Group(ym))]
        NotNa(r) == r.bess_gw # NoneVal /\ r.has_wind
    IN SelectSeq(Rows([k \in 1..Len(months) |-> Monthly(months[k])], Len(months)), NotNa)

alpha_caiso == 65

alpha_modo == 46

alpha_central == 50

\* Rows needed in the reference window, and taken from the end otherwise.
RefRows == 6

\* calibrate_params with the reference window always the last six rows.
calibrate_params_last_six(monthly_data) ==
    LET n          == Len(monthly_data)
        window     == SubSeq(monthly_data, IF n > RefRows THEN n - RefRows + 1 ELSE 1, n)
        spread_ref == SeqMean(Rows([i \in 1..Len(window) |-> window[i].spread], Len(window)))
        bess_ref   == SeqMean(Rows([i \in 1..Len(window) |-> window[i].bess_gw], Len(window)))
        avg_price  == Dec(900, 1)
        rt_efficiency_loss == Dec(15, 2)
        floor      == FMul(avg_price, rt_efficiency_loss)
    IN [model_type |-> "power_law_with_floor",
        spread_ref |-> spread_ref,
        bess_ref   |-> bess_ref,
        floor      |-> floor,
        alpha      |-> alpha_central,
        alpha_low  |-> alpha_modo,
        alpha_high |-> alpha_caiso]

calibrate_params(monthly_data) ==
    LET AtLeast6GW(r) == FLe(Dec(60, 1), r.bess_gw)
        recent     == SelectSeq(monthly_data, AtLeast6GW)
        n          == Len(monthly_data)
        window     == IF Len(recent) >= RefRows THEN recent
                      ELSE SubSeq(monthly_data, IF n > RefRows THEN n - RefRows + 1 ELSE 1, n)
        spread_ref == SeqMean(Rows([i \in 1..Len(window) |-> window[i].spread], Len(window)))
        bess_ref   == SeqMean(Rows([i \in 1..Len(window) |-> window[i].bess_gw], Len(window)))
        avg_price  == Dec(900, 1)
        rt_efficiency_loss == Dec(15, 2)
        floor      == FMul(avg_price, rt_efficiency_loss)
    IN [model_type |-> "power_law_with_floor",
        spread_ref |-> spread_ref,
        bess_ref   |-> bess_ref,
        floor      |-> floor,
        alpha      |-> alpha_central,
        alpha_low  |-> alpha_modo,
        alpha_high |-> alpha_caiso]

\* save_params: the calibrated parameters plus the month offsets of the fit
\* with year dummies and the spread column (the other diagnostics are left out).
save_params(params, ols_model, spread_col) ==
    [model_type  |-> params.model_type,
     spread_ref  |-> params.spread_ref,
     bess_ref    |-> params.bess_ref,
     floor       |-> params.floor,
     alpha       |-> params.alpha,
     alpha_low   |-> params.alpha_low,
     alpha_high  |-> params.alpha_high,
     ols_n_obs   |-> ols_model.nobs,
     spread_col  |-> spread_col,
     month_coefs |-> ols_model.month_coefs]

\* main up to the first exception: the merged panel, the two regressions, the
\* monthly panel and the calibration.
SpreadModelRun(elexon_file, agile_file, capacity_file, generation, slope) ==
    IF (elexon_file = Absent /\ agile_file = Absent) \/ capacity_file = Absent
    THEN [status |-> "FileNotFoundError"]
    ELSE LET merged == load_and_merge(elexon_file, agile_file, capacity_file[1], generation)
             ols_with_year == run_ols(merged.df, TRUE, slope)
             ols_no_year   == run_ols(merged.df, FALSE, slope)
         IN IF ols_with_year.status # "ok"
            THEN [status |-> ols_with_year.status, df |-> merged.df,
                  ols_with_year |-> ols_with_year]
            ELSE IF ols_no_year.status # "ok"
            THEN [status |-> ols_no_year.status, df |-> merged.df,
                  ols_with_year |-> ols_with_year]
            ELSE [status |-> "ok", df |-> merged.df,
                  ols_with_year |-> ols_with_year,
                  monthly |-> fit_power_law(merged.df),
                  params  |-> save_params(calibrate_params(fit_power_law(merged.df)),
                                          ols_with_year, merged.spread_col)]

\* main: the artifact is written only by the last step, save_params.
SpreadModel ==
    /\ \E slope \in OlsSlopes :
          LET run == SpreadModelRun(daily_elexon_wholesale, daily_wholesale_spread,
                                    capacity_monthly, daily_wind_solar_generation, slope)
          IN /\ last_run' = [last_run EXCEPT !.spread_model = run]
             /\ spread_params' = IF run.status = "ok" THEN <<run.params>> ELSE spread_params
    /\ UNCHANGED <<pl, sa, fetcher, daily, capacity_monthly, fes_scenarios, bess_forecast,
                   tariff_params, forecast>>

----------------------------------------------------------------------------
(* analysis/4_tariff_model.py                                              *)

\* The coefficients the two regressions can return on overlapping days.
TariffFits ==
    { [spread_multiplier |-> Dec(125, 2), spread_intercept |-> FInt(4),
       price_multiplier  |-> Dec(15, 1),  price_adder_mwh  |-> FInt(60)] }

\* The identity mapping written without the price keys.
degraded_params_without_price ==
    [spread_multiplier |-> Dec(10, 1),
     spread_intercept  |-> Zero,
     note              |-> "No Elexon cross-validation available"]

\* The parameters written when there is no Elexon series (the fit
\* diagnostics, which are None, are left out).
degraded_params ==
    [spread_multiplier |-> Dec(10, 1),
     spread_intercept  |-> Zero,
     price_multiplier  |-> Dec(10, 1),
     price_adder_mwh   |-> Zero,
     note              |-> "No Elexon cross-validation available"]

\* The days of the inner join on date of the two daily series.
OverlapDays(agile_file, elexon_file) ==
    {agile_file[1][i].date : i \in 1..Len(agile_file[1])}
    \cap {elexon_file[1][i].date : i \in 1..Len(elexon_file[1])}

\* main up to the first exception.  With an Elexon file the two regressions
\* are fitted to the overlapping days (a fit on no day at all raises); without
\* one the fallback parameters are written.
TariffModelRun(agile_file, elexon_file, fit) ==
    IF agile_file = Absent THEN [status |-> "FileNotFoundError"]
    ELSE IF elexon_file # Absent
    THEN (IF OverlapDays(agile_file, elexon_file) = {}
          THEN [status |-> "ValueError", has_elexon |-> TRUE, n_obs |-> 0]
          ELSE [status |-> "ok", has_elexon |-> TRUE,
                n_obs |-> Cardinality(OverlapDays(agile_file, elexon_file)),
                params |-> fit])
    ELSE [status |-> "ok", has_elexon |-> FALSE, n_obs |-> Len(agile_file[1]),
          params |-> degraded_params]

\* main: the artifact is written after the regressions or the fallback.
TariffModel ==
    /\ \E fit \in TariffFits :
          LET run == TariffModelRun(daily_wholesale_spread, daily_elexon_wholesale, fit)
          IN /\ last_run' = [last_run EXCEPT !.tariff_model = run]
             /\ tariff_params' = IF run.status = "ok" THEN <<run.params>> ELSE tariff_params
    /\ UNCHANGED <<pl, sa, fetcher, daily, capacity_monthly, fes_scenarios, bess_forecast,
                   spread_params, forecast>>

----------------------------------------------------------------------------
(* analysis/5_combined_forecast.py                                         *)

\* The keys main reads from the pass-through artifact, with their defaults.
ComposerTariffDefaults == [price_multiplier |-> Dec(131, 2), price_adder_mwh |-> FInt(65)]

\* max(power_law_spread(...) * seasonal_adjustment(...), 0.0)
SeasonalSpread(bess_gw, date, sp, a) ==
    FMax(FMul(power_law_spread(bess_gw, sp.floor, sp.spread_ref, sp.bess_ref, a),
              seasonal_adjustment(MonthOf(date),
                                  IF "month_coefs" \in DOMAIN sp THEN sp.month_coefs ELSE <<>>,
                                  sp.spread_ref)),
         Zero)

\* The scenario's spread at a date, None when the table or the date is missing.
ScenarioSpread(scenarios, name, date, sp) ==
    IF scenarios = Absent THEN NoneVal
    ELSE IF date \notin DOMAIN scenarios[1][name] THEN NoneVal
    ELSE SeasonalSpread(scenarios[1][name][date], date, sp, sp.alpha)

\* ~1.5 GW/year growth, per month.
wind_growth_gw_month == FDiv(Dec(15, 1), FInt(12))

\* Seasonal capacity factors for wind, in hundredths.
wind_cf == <<38, 35, 32, 28, 25, 22, 22, 24, 28, 32, 36, 38>>

\* The last date of a non-empty installed-capacity file.
LatestDate(ren) == CHOOSE d \in {ren[i].date : i \in 1..Len(ren)} :
                      \A i \in 1..Len(ren) : ren[i].date <= d

\* project_wind_generation and the lookup of main, line 159: the projected
\* mean wind generation of a forecast month, from the last row of the
\* installed-capacity file, or 6.8 without the file.
project_wind_generation(date, ren_file) ==
    IF ren_file = Absent THEN Dec(68, 1)
    ELSE FMul(FAdd(ren_file[1][Len(ren_file[1])].total_wind_gw,
                   FMul(wind_growth_gw_month, FInt(date - LatestDate(ren_file[1])))),
              Dec(wind_cf[MonthOf(date)], 2))

\* One row of the forecast table with the wholesale spread lowered by half
\* the projected wind generation.
ForecastRowWindAdjusted(b, ws, wind_gen, price_multiplier, scenarios, sp) ==
    [date                   |-> b.date,
     bess_gw                |-> b.bess_capacity_gw,
     wind_gen_gw            |-> wind_gen,
     wholesale_spread_mwh   |-> FMax(FSub(ws, FMul(Dec(5, 1), wind_gen)), Zero),
     agile_spread_mwh       |-> FMul(price_multiplier, ws),
     agile_spread_p_kwh     |-> FDiv(FMul(price_multiplier, ws), FInt(10)),
     spread_leading_the_way |-> ScenarioSpread(scenarios, "leading_the_way", b.date, sp),
     spread_falling_short   |-> ScenarioSpread(scenarios, "falling_short", b.date, sp)]

\* One row of the forecast table, given its wholesale spread and its
\* projected wind generation.
ForecastRow(b, ws, wind_gen, price_multiplier, scenarios, sp) ==
    [date                   |-> b.date,
     bess_gw                |-> b.bess_capacity_gw,
     wind_gen_gw            |-> wind_gen,
     wholesale_spread_mwh   |-> ws,
     agile_spread_mwh       |-> FMul(price_multiplier, ws),
     agile_spread_p_kwh     |-> FDiv(FMul(price_multiplier, ws), FInt(10)),
     spread_leading_the_way |-> ScenarioSpread(scenarios, "leading_the_way", b.date, sp),
     spread_falling_short   |-> ScenarioSpread(scenarios, "falling_short", b.date, sp)]

\* The parameters main reads with spread_params[...], which raises KeyError
\* on a missing key.
CoreKeys == {"floor", "spread_ref", "bess_ref", "alpha", "alpha_low", "alpha_high"}

\* Values a reader could fall back to for the parameters the file lacks.
CoreDefaults == [floor |-> Dec(135, 1), spread_ref |-> FInt(63), bess_ref |-> FInt(7),
                 alpha |-> 50, alpha_low |-> 46, alpha_high |-> 65]

\* The parameters read with .get(key, default) for every key.
LoadedParamsWithDefaults(sp) ==
    [k \in CoreKeys \cup {"month_coefs"} |->
        IF k \in DOMAIN sp THEN sp[k]
        ELSE IF k = "month_coefs" THEN <<>> ELSE CoreDefaults[k]]

\* main, lines 118 to 124: the six parameters and month_coefs (default {}),
\* or None when a key is missing.
LoadedParams(sp) ==
    IF CoreKeys \subseteq DOMAIN sp
    THEN [k \in CoreKeys \cup {"month_coefs"} |->
            IF k \in DOMAIN sp THEN sp[k] ELSE <<>>]
    ELSE NoneVal

\* The exception the base-case evaluation of one row raises, if any.  The
\* capacity of a row of iterrows() is a Python float: dividing by 0.0 raises
\* ZeroDivisionError, and a negative ratio to a fractional power is a complex
\* number, which max(..., 0.0) cannot compare.
RowError(bess_gw, bess_ref) ==
    IF bess_gw = Zero THEN "ZeroDivisionError"
    ELSE IF IsFinite(bess_gw) /\ IsFinite(bess_ref) /\ bess_gw[1] * bess_ref[1] < 0
    THEN "TypeError"
    ELSE "ok"

\* How main ends: the first exception raised before the forecast table is
\* written, or ok.
ComposerStatus(spread_file, tariff_file, bess_file, ren_file) ==
    IF spread_file = Absent \/ tariff_file = Absent THEN "FileNotFoundError"
    ELSE IF LoadedParams(spread_file[1]) = NoneVal THEN "KeyError"
    ELSE IF bess_file = Absent THEN "FileNotFoundError"
    ELSE IF bess_file[1] = <<>> THEN "IndexError"
    ELSE IF ren_file # Absent /\ ren_file[1] = <<>> THEN "IndexError"
    ELSE LET bad == {i \in 1..Len(bess_file[1]) :
                        RowError(bess_file[1][i].bess_capacity_gw,
                                 LoadedParams(spread_file[1]).bess_ref) # "ok"}
         IN IF bad = {} THEN "ok"
            ELSE RowError(bess_file[1][Least(bad)].bess_capacity_gw,
                          LoadedParams(spread_file[1]).bess_ref)

\* main: the forecast table, the alpha sensitivity series of the second plot,
\* the pass-through values it read and printed, and the artifacts it loaded.
ComposerRun(sp, tp, bess, scenarios, ren_file) ==
    [rows |->
        Rows([i \in 1..Len(bess) |->
                ForecastRow(bess[i],
                            SeasonalSpread(bess[i].bess_capacity_gw, bess[i].date, sp, sp.alpha),
                            project_wind_generation(bess[i].date, ren_file),
                            IF "price_multiplier" \in DOMAIN tp THEN tp.price_multiplier
                            ELSE ComposerTariffDefaults.price_multiplier,
                            scenarios, sp)], Len(bess)),
     sensitivity |->
        Rows([i \in 1..Len(bess) |->
                [alpha_low  |-> SeasonalSpread(bess[i].bess_capacity_gw, bess[i].date, sp,
                                               sp.alpha_low),
                 alpha_high |-> SeasonalSpread(bess[i].bess_capacity_gw, bess[i].date, sp,
                                               sp.alpha_high)]], Len(bess)),
     printed |-> [k \in DOMAIN ComposerTariffDefaults |->
                    IF k \in DOMAIN tp THEN tp[k] ELSE ComposerTariffDefaults[k]],
     spread_params |-> sp,
     tariff_params |-> tp]

\* main: the table is written only if nothing has raised before line 205.
Composer ==
    /\ last_run' = [last_run EXCEPT !.composer =
                       [status |-> ComposerStatus(spread_params, tariff_params, bess_forecast,
                                                  renewable_capacity_monthly)]]
    /\ forecast' = IF ComposerStatus(spread_params, tariff_params, bess_forecast,
                                     renewable_capacity_monthly) = "ok"
                   THEN <<ComposerRun(LoadedParams(spread_params[1]), tariff_params[1],
                                      bess_forecast[1], fes_scenarios,
                                      renewable_capacity_monthly)>>
                   ELSE forecast
    /\ UNCHANGED <<pl, sa, fetcher, daily, capacity_monthly, fes_scenarios, bess_forecast,
                   spread_params, tariff_params>>

----------------------------------------------------------------------------
(* The pipeline: the scripts run in any order, each on the files it finds  *)

Init ==
    /\ pl = NoPL
    /\ sa = NoSA
    /\ FilesInit

Next ==
    \/ FetchAgile
    \/ FetchElexon
    \/ FetchBessCapacity
    \/ BessForecast
    \/ SpreadModel
    \/ TariffModel
    \/ Composer

Spec == Init /\ [][Next]_vars

----------------------------------------------------------------------------
(* The composer on bounded input files                                     *)

\* A record without some of its keys.
Without(rec, keys) == [k \in DOMAIN rec \ keys |-> rec[k]]

GoodParams ==
    [floor |-> Dec(135, 1), spread_ref |-> FInt(63), bess_ref |-> FInt(7),
     alpha |-> alpha_central, alpha_low |-> alpha_modo, alpha_high |-> alpha_caiso,
     month_coefs |-> [m \in 2..12 |-> FMul(Dec(15, 1), FInt(m - 7))]]

\* spread_model_params.json: absent, calibrated, with a July offset that makes
\* the seasonal factor negative, with a zero or NaN reference spread, and
\* without some of its keys.
ComposerSpreadFiles ==
    { Absent,
      <<GoodParams>>,
      <<[GoodParams EXCEPT !.month_coefs = [m \in {7} |-> FNeg(FInt(90))]]>>,
      <<[GoodParams EXCEPT !.spread_ref = Zero]>>,
      <<[GoodParams EXCEPT !.spread_ref = Zero, !.month_coefs = [m \in {} |-> Zero]]>>,
      <<[GoodParams EXCEPT !.spread_ref = NaN, !.bess_ref = NaN]>>,
      <<Without(GoodParams, {"alpha_low", "alpha_high"})>>,
      <<Without(GoodParams, {"floor"})>>,
      <<Without(GoodParams, {"month_coefs"})>> }

\* tariff_model_params.json: absent, the fallback, a fit.
ComposerTariffFiles == {Absent, <<degraded_params>>} \cup {<<fit>> : fit \in TariffFits}

\* A capacity trajectory of three months from capacities in tenths of a GW.
Trajectory(c1, c2, c3) ==
    << [date |-> YM(2026, 1),  bess_capacity_gw |-> c1],
       [date |-> YM(2026, 7),  bess_capacity_gw |-> c2],
       [date |-> YM(2027, 12), bess_capacity_gw |-> c3] >>

\* bess_forecast.csv: absent, growing, with a zero and with a negative capacity.
ComposerBessFiles ==
    { Absent,
      <<Trajectory(Dec(85, 1), Dec(95, 1), Dec(123, 1))>>,
      <<Trajectory(Dec(85, 1), Zero, Dec(123, 1))>>,
      <<Trajectory(Dec(85, 1), Dec(95, 1), FNeg(Dec(123, 1)))>> }

\* bess_fes_scenarios.csv: absent, the table the fetcher builds, and a table
\* of two months with a zero and a negative capacity.
ComposerScenarioFiles ==
    { Absent,
      <<build_fes_projections>>,
      <<[scenario \in {FES_SCENARIOS[i] : i \in 1..Len(FES_SCENARIOS)} |->
           [date \in {YM(2026, 1), YM(2026, 7)} |->
              IF scenario = "leading_the_way" /\ date = YM(2026, 7) THEN Zero
              ELSE IF scenario = "falling_short" /\ date = YM(2026, 1) THEN FNeg(FInt(5))
              ELSE FInt(9)]]>> }

\* renewable_capacity_monthly.csv: missing, as fetch_renewables.py writes it,
\* cut after September 2025, and with a header only.
ComposerWindFiles ==
    {Absent, <<build_from_known_data>>,
     <<SubSeq(build_from_known_data, 1, Len(build_from_known_data) - 3)>>, << <<>> >>}

ComposerInit ==
    /\ pl = NoPL
    /\ sa = NoSA
    /\ fetcher = NoFetch
    /\ renewable_capacity_monthly \in ComposerWindFiles
    /\ daily_wholesale_spread = Absent
    /\ daily_elexon_wholesale = Absent
    /\ daily_wind_solar_generation = Absent
    /\ capacity_monthly = Absent
    /\ last_run = NotRun
    /\ forecast = Absent
    /\ spread_params \in ComposerSpreadFiles
    /\ tariff_params \in ComposerTariffFiles
    /\ bess_forecast \in ComposerBessFiles
    /\ fes_scenarios \in ComposerScenarioFiles

ComposerNext == Composer

SpecComposer == ComposerInit /\ [][ComposerNext]_vars

----------------------------------------------------------------------------
(* The calibration on bounded input files                                  *)

\* The market files process_market_index can have written: one of the
\* non-empty series the API serves, or two days a month of January to
\* September 2025.
CalibrationElexonFiles ==
    {Absent}
    \cup {<<d.market>> : d \in {x \in ElexonData : x.market # <<>>}}
    \cup {<< Rows([k \in 1..18 |->
                     ElexonRow(2025, (k + 1) \div 2, IF k % 2 = 1 THEN 1 ELSE 15,
                               40 + ((7 * k) % 11), 90)], 18) >>}

\* The generation files process_generation can have written: wind for the
\* 1st and 15th of every month, for the 1st only, or for the 1st of January
\* to March 2025 only.
CalibrationGenerationFiles ==
    {Absent,
     <<{Day(y, m, d) : y \in {2024, 2025}, m \in 1..12, d \in {1, 15}}>>,
     <<{Day(y, m, 1) : y \in {2024, 2025}, m \in 1..12}>>,
     <<{Day(2025, m, 1) : m \in 1..3}>>}

CalibrationInit ==
    /\ pl = NoPL
    /\ sa = NoSA
    /\ fetcher = NoFetch
    /\ renewable_capacity_monthly = Absent
    /\ daily_wholesale_spread \in {Absent} \cup {<<series>> : series \in AgileSeries}
    /\ daily_elexon_wholesale \in CalibrationElexonFiles
    /\ daily_wind_solar_generation \in CalibrationGenerationFiles
    /\ capacity_monthly \in {Absent, <<CombinedSeries>>}
    /\ last_run = NotRun
    /\ forecast = Absent
    /\ spread_params = Absent
    /\ tariff_params = Absent
    /\ bess_forecast = Absent
    /\ fes_scenarios = Absent

CalibrationNext == SpreadModel

SpecCalibration == CalibrationInit /\ [][CalibrationNext]_vars

----------------------------------------------------------------------------
(* fetch/fetch_elexon.py: the chunk loops, an interruption and a rerun     *)

\* Days are counted from START_DATE, 2019-01-01 (day 0).
CHUNK_DAYS == 7

\* The longest range fetched, in days after its first day.
FetchSpan == 15

Min(a, b) == IF a <= b THEN a ELSE b

\* chunk_end with the window not cut at end.
ChunkEndUnclamped(current, end) == current + (CHUNK_DAYS - 1)

\* chunk_end = min(current + timedelta(days=CHUNK_DAYS - 1), end)
ChunkEnd(current, end) == Min(current + (CHUNK_DAYS - 1), end)

\* main has called fetch_all_generation(start, end): nothing requested yet,
\* nothing in memory, nothing on disk.
FetchInit ==
    /\ fetcher \in {[phase |-> "generation", start |-> a, end |-> a + n, current |-> a,
                     all_rows |-> {}, generation_windows |-> <<>>, market_windows |-> <<>>,
                     retrieved_generation |-> {}, retrieved_market |-> {}] :
                      a \in {0, 2}, n \in 0..FetchSpan}
    /\ pl = NoPL
    /\ sa = NoSA
    /\ daily_wholesale_spread = Absent
    /\ daily_elexon_wholesale = Absent
    /\ daily_wind_solar_generation = Absent
    /\ renewable_capacity_monthly = Absent
    /\ last_run = NotRun
    /\ capacity_monthly = Absent
    /\ fes_scenarios = Absent
    /\ bess_forecast = Absent
    /\ spread_params = Absent
    /\ tariff_params = Absent
    /\ forecast = Absent

\* fetch_all_generation, one pass of the loop: the window is requested and
\* its days (all of them, or none when the request fails) are added to
\* all_rows in memory.
GenerationChunk ==
    /\ fetcher.phase = "generation"
    /\ fetcher.current <= fetcher.end
    /\ \E served \in BOOLEAN :
          LET chunk_end == ChunkEnd(fetcher.current, fetcher.end)
              records   == IF served THEN fetcher.current..chunk_end ELSE {}
          IN fetcher' = [fetcher EXCEPT
                           !.generation_windows = Append(@, <<fetcher.current, chunk_end>>),
                           !.all_rows = @ \cup records,
                           !.retrieved_generation = @ \cup records,
                           !.current = chunk_end + 1]
    /\ UNCHANGED <<pl, sa, files>>

\* main, lines 215 to 227: after the loop the generation file is written if
\* there are rows; fetch_all_market_index starts from start again.
GenerationDone ==
    /\ fetcher.phase = "generation"
    /\ fetcher.current > fetcher.end
    /\ daily_wind_solar_generation' =
          IF fetcher.all_rows = {} THEN daily_wind_solar_generation
          ELSE <<{Day(2019, 1, n + 1) : n \in fetcher.all_rows}>>
    /\ fetcher' = [fetcher EXCEPT !.phase = "market", !.current = fetcher.start,
                                  !.all_rows = {}]
    /\ UNCHANGED <<pl, sa, daily_wholesale_spread, daily_elexon_wholesale,
                   renewable_capacity_monthly, capacity_monthly, fes_scenarios, bess_forecast,
                   spread_params, tariff_params, forecast, last_run>>

\* fetch_all_market_index, one pass of the loop.
MarketChunk ==
    /\ fetcher.phase = "market"
    /\ fetcher.current <= fetcher.end
    /\ \E served \in BOOLEAN :
          LET chunk_end == ChunkEnd(fetcher.current, fetcher.end)
              records   == IF served THEN fetcher.current..chunk_end ELSE {}
          IN fetcher' = [fetcher EXCEPT
                           !.market_windows = Append(@, <<fetcher.current, chunk_end>>),
                           !.all_rows = @ \cup records,
                           !.retrieved_market = @ \cup records,
                           !.current = chunk_end + 1]
    /\ UNCHANGED <<pl, sa, files>>

\* main, lines 233 to 239: after the loop process_market_index writes the
\* daily file if there is data (one row per day; the prices are not modelled).
MarketDone ==
    /\ fetcher.phase = "market"
    /\ fetcher.current > fetcher.end
    /\ daily_elexon_wholesale' =
          IF fetcher.all_rows = {} THEN daily_elexon_wholesale
          ELSE <<Rows([k \in 1..Cardinality(fetcher.all_rows) |->
                         ElexonRow(2019, 1, Ascending(fetcher.all_rows)[k] + 1, 10, 90)],
                      Cardinality(fetcher.all_rows))>>
    /\ fetcher' = [fetcher EXCEPT !.phase = "done", !.all_rows = {}]
    /\ UNCHANGED <<pl, sa, daily_wholesale_spread, daily_wind_solar_generation,
                   renewable_capacity_monthly, capacity_monthly, fes_scenarios, bess_forecast,
                   spread_params, tariff_params, forecast, last_run>>

\* The process is killed inside one of the loops: what it holds in memory is
\* gone, the files stay as they are.
Interrupt ==
    /\ fetcher.phase \in {"generation", "market"}
    /\ fetcher' = [fetcher EXCEPT !.phase = "interrupted", !.all_rows = {}]
    /\ UNCHANGED <<pl, sa, files>>

\* The script is run again: main calls fetch_all_generation(START_DATE,
\* end_date) whatever is on disk.
Restart ==
    /\ fetcher.phase \in {"interrupted", "done"}
    /\ fetcher' = [fetcher EXCEPT !.phase = "generation", !.current = fetcher.start,
                                  !.all_rows = {},
                                  !.generation_windows = <<>>, !.market_windows = <<>>,
                                  !.retrieved_generation = {}, !.retrieved_market = {}]
    /\ UNCHANGED <<pl, sa, files>>

ChunksNext == GenerationChunk \/ GenerationDone \/ MarketChunk \/ MarketDone

\* One run to its end: the loops sleep 0.3 s per pass and go on.
SpecChunks == FetchInit /\ [][ChunksNext]_vars /\ WF_vars(ChunksNext)

FetchNext == ChunksNext \/ Interrupt \/ Restart

SpecFetch == FetchInit /\ [][FetchNext]_vars

----------------------------------------------------------------------------
(* Properties of the pipeline                                              *)

\* The forecast run on disk: its rows, sensitivity series and loaded artifacts.
Run == forecast[1]

\* The run on disk loaded a pass-through artifact written by the fallback.
RunIsDegraded == forecast # Absent /\ "note" \in DOMAIN Run.tariff_params

\* C4 (as claimed): with the three alphas calibrate_params emits, at every
\* capacity above bess_ref the spread with alpha_high is <= the spread with the
\* central alpha, which is <= the spread with alpha_low; and the calibration
\* artifact always holds all three alphas.
C4_ElasticityOrdering ==
    /\ spread_params # Absent =>
          {"alpha", "alpha_low", "alpha_high"} \subseteq DOMAIN spread_params[1]
    /\ forecast # Absent =>
          \A i \in 1..Len(Run.rows) :
             FLt(Run.spread_params.bess_ref, Run.rows[i].bess_gw) =>
                /\ FLe(Run.sensitivity[i].alpha_high, Run.rows[i].wholesale_spread_mwh)
                /\ FLe(Run.rows[i].wholesale_spread_mwh, Run.sensitivity[i].alpha_low)

\* C6 (as claimed): in every forecast row with both scenario values,
\* spread_leading_the_way <= wholesale_spread_mwh <= spread_falling_short.
C6_SpreadFanOrdered ==
    forecast # Absent =>
       \A i \in 1..Len(Run.rows) :
          (Run.rows[i].spread_leading_the_way # NoneVal
           /\ Run.rows[i].spread_falling_short # NoneVal) =>
             /\ FLe(Run.rows[i].spread_leading_the_way, Run.rows[i].wholesale_spread_mwh)
             /\ FLe(Run.rows[i].wholesale_spread_mwh, Run.rows[i].spread_falling_short)

\* C7: in the scenario table build_fes_projections returns, at every monthly
\* date leading_the_way >= consumer_transformation >= system_transformation
\* >= falling_short.
C7_CapacityFanOrdered ==
    fes_scenarios # Absent =>
       \A d \in DOMAIN fes_scenarios[1]["leading_the_way"] :
          /\ FLe(fes_scenarios[1]["consumer_transformation"][d],
                 fes_scenarios[1]["leading_the_way"][d])
          /\ FLe(fes_scenarios[1]["system_transformation"][d],
                 fes_scenarios[1]["consumer_transformation"][d])
          /\ FLe(fes_scenarios[1]["falling_short"][d],
                 fes_scenarios[1]["system_transformation"][d])

\* The table is on disk and at an interpolated month the four scenarios are
\* strictly apart.
C7_Witness ==
    /\ fes_scenarios # Absent
    /\ \E d \in DOMAIN fes_scenarios[1]["leading_the_way"] :
          /\ MonthOf(d) # 1
          /\ FLt(fes_scenarios[1]["consumer_transformation"][d],
                 fes_scenarios[1]["leading_the_way"][d])
          /\ FLt(fes_scenarios[1]["system_transformation"][d],
                 fes_scenarios[1]["consumer_transformation"][d])
          /\ FLt(fes_scenarios[1]["falling_short"][d],
                 fes_scenarios[1]["system_transformation"][d])

\* C8 (as claimed): in every forecast row agile_spread_mwh is
\* spread_multiplier * wholesale_spread_mwh + spread_intercept of the loaded
\* pass-through artifact, and agile_spread_p_kwh is agile_spread_mwh / 10.
C8_AffinePassThrough ==
    forecast # Absent =>
       \A i \in 1..Len(Run.rows) :
          /\ Run.rows[i].agile_spread_mwh =
                FAdd(FMul(Run.tariff_params.spread_multiplier, Run.rows[i].wholesale_spread_mwh),
                     Run.tariff_params.spread_intercept)
          /\ Run.rows[i].agile_spread_p_kwh = FDiv(Run.rows[i].agile_spread_mwh, FInt(10))

\* C9: while no Elexon series has been supplied, the artifact the tariff
\* model writes has multiplier 1 and intercept 0; and every row of a forecast
\* composed from that artifact has agile_spread_mwh equal to
\* wholesale_spread_mwh exactly.
C9_DegradedIdentity ==
    /\ (~elexon /\ tariff_params # Absent) =>
          /\ tariff_params[1].spread_multiplier = One
          /\ tariff_params[1].spread_intercept = Zero
          /\ "note" \in DOMAIN tariff_params[1]
    /\ RunIsDegraded =>
          \A i \in 1..Len(Run.rows) :
             Run.rows[i].agile_spread_mwh = Run.rows[i].wholesale_spread_mwh

\* A forecast composed from the fallback artifact, with a non-zero spread
\* passed through unchanged.
C9_Witness ==
    /\ RunIsDegraded
    /\ ~elexon
    /\ Len(Run.rows) > 0
    /\ \E i \in 1..Len(Run.rows) :
          /\ Run.rows[i].wholesale_spread_mwh # Zero
          /\ Run.rows[i].agile_spread_mwh = Run.rows[i].wholesale_spread_mwh

\* C10 (as claimed): the fallback artifact carries a degraded-state marker, and
\* a forecast composed from it carries the marker too, in what the composer
\* read and printed or in its rows.
C10_DegradedSurfaced ==
    /\ (tariff_params # Absent /\ tariff_params[1].spread_multiplier = One
        /\ tariff_params[1].spread_intercept = Zero) => "note" \in DOMAIN tariff_params[1]
    /\ RunIsDegraded =>
          \/ "note" \in DOMAIN Run.printed
          \/ \A i \in 1..Len(Run.rows) : "note" \in DOMAIN Run.rows[i]


----------------------------------------------------------------------------
(* Properties of the analysis runs                                         *)

\* The last tariff-model run found an Elexon file sharing no day with the
\* Agile series.
TariffRunWithoutOverlap ==
    /\ "has_elexon" \in DOMAIN last_run.tariff_model
    /\ last_run.tariff_model.has_elexon
    /\ last_run.tariff_model.n_obs = 0

\* C11 (as claimed): a tariff-model run that finds an Elexon file sharing no
\* day with the Agile series ends normally and writes the fallback parameters
\* (multiplier 1, intercept 0, flagged by the note), as a run without the file.
C11_NoOverlapDegrades ==
    TariffRunWithoutOverlap =>
        /\ last_run.tariff_model.status = "ok"
        /\ last_run.tariff_model.params = degraded_params
        /\ tariff_params = <<degraded_params>>

\* The merged panel of the last calibration run that got as far as merging.
HasPanel == "df" \in DOMAIN last_run.spread_model

Panel == last_run.spread_model.df

\* The capacity file has a historic row for the month with this capacity.
HistoricCapacity(year_month, gw) ==
    \E i \in 1..Len(capacity_monthly[1]) :
       /\ capacity_monthly[1][i].source = "historic"
       /\ capacity_monthly[1][i].date = year_month
       /\ capacity_monthly[1][i].bess_capacity_gw = gw

\* C12: every row of the merged panel has a capacity that is not missing, and
\* its month has a historic row in the capacity file (a day of any other month
\* is not in the panel).
C12_PanelCapacityNonNull ==
    HasPanel =>
       \A i \in 1..Len(Panel) :
          /\ Panel[i].bess_gw # NoneVal
          /\ IsFinite(Panel[i].bess_gw)
          /\ \E j \in 1..Len(capacity_monthly[1]) :
                /\ capacity_monthly[1][j].source = "historic"
                /\ capacity_monthly[1][j].date = Panel[i].date[1]

\* A calibration run on the Agile series, which has a day of January 2026 (a
\* month without historic capacity): the panel has rows but not that day.
C12_Witness ==
    /\ HasPanel
    /\ last_run.spread_model.status = "ok"
    /\ last_run.spread_model.params.spread_col = "spread_max_min"
    /\ Len(Panel) > 0
    /\ \E i \in 1..Len(daily_wholesale_spread[1]) :
          /\ daily_wholesale_spread[1][i].date[1] = YM(2026, 1)
          /\ \A j \in 1..Len(Panel) : Panel[j].date # daily_wholesale_spread[1][i].date

\* C13: every row of the merged panel carries the capacity of the historic row
\* of its month, so two days of one month carry the same capacity.
C13_StepBroadcast ==
    HasPanel =>
       /\ \A i \in 1..Len(Panel) : HistoricCapacity(Panel[i].date[1], Panel[i].bess_gw)
       /\ \A i, j \in 1..Len(Panel) :
             Panel[i].date[1] = Panel[j].date[1] => Panel[i].bess_gw = Panel[j].bess_gw

\* A panel with two different days of one interpolated month (neither June nor
\* December), both with that month's capacity, which differs from the next
\* month's.
C13_Witness ==
    /\ HasPanel
    /\ \E i, j \in 1..Len(Panel) :
          /\ Panel[i].date[1] = Panel[j].date[1]
          /\ Panel[i].date[2] # Panel[j].date[2]
          /\ Panel[i].month \notin {6, 12}
          /\ Panel[i].bess_gw = Panel[j].bess_gw
          /\ HistoricCapacity(Panel[i].date[1], Panel[i].bess_gw)
          /\ ~HistoricCapacity(Panel[i].date[1] + 1, Panel[i].bess_gw)

\* C14 (as claimed): every wholesale_spread_mwh, spread_leading_the_way and
\* spread_falling_short written to the forecast table is >= 0.
C14_SpreadsNonNegative ==
    forecast # Absent =>
       \A i \in 1..Len(Run.rows) :
          /\ FLe(Zero, Run.rows[i].wholesale_spread_mwh)
          /\ Run.rows[i].spread_leading_the_way # NoneVal =>
                FLe(Zero, Run.rows[i].spread_leading_the_way)
          /\ Run.rows[i].spread_falling_short # NoneVal =>
                FLe(Zero, Run.rows[i].spread_falling_short)

\* The composer has run on input files that lack an artifact or a core key.
RanWithoutCoreInput ==
    /\ last_run.composer.status # "not run"
    /\ \/ spread_params = Absent
       \/ tariff_params = Absent
       \/ ~(CoreKeys \subseteq DOMAIN spread_params[1])

\* C15: a composer run that finds no calibration artifact, no pass-through
\* artifact, or a calibration artifact without one of the six core keys ends
\* with an exception and writes no forecast table; and the core parameters of
\* a written table are those of the calibration artifact.
C15_RefusesWithoutCoreParams ==
    /\ RanWithoutCoreInput =>
          /\ last_run.composer.status \in {"FileNotFoundError", "KeyError"}
          /\ forecast = Absent
    /\ forecast # Absent =>
          \A k \in CoreKeys : /\ k \in DOMAIN spread_params[1]
                              /\ Run.spread_params[k] = spread_params[1][k]

\* A run on a calibration artifact that lacks alpha_low and alpha_high, with
\* every other input present: KeyError and no table.
C15_Witness ==
    /\ last_run.composer.status = "KeyError"
    /\ spread_params # Absent
    /\ tariff_params # Absent
    /\ bess_forecast # Absent
    /\ "alpha_low" \notin DOMAIN spread_params[1]
    /\ "floor" \in DOMAIN spread_params[1]
    /\ forecast = Absent

\* The composer's inputs are all present with their core keys, and spread_ref
\* is 0 or a base-case or scenario capacity of a forecast month is <= 0.
UndefinedEvaluation ==
    /\ spread_params # Absent /\ tariff_params # Absent /\ bess_forecast # Absent
    /\ CoreKeys \subseteq DOMAIN spread_params[1]
    /\ \/ spread_params[1].spread_ref = Zero
       \/ \E i \in 1..Len(bess_forecast[1]) :
             \/ FLe(bess_forecast[1][i].bess_capacity_gw, Zero)
             \/ /\ fes_scenarios # Absent
                /\ \E name \in {"leading_the_way", "falling_short"} :
                      /\ bess_forecast[1][i].date \in DOMAIN fes_scenarios[1][name]
                      /\ FLe(fes_scenarios[1][name][bess_forecast[1][i].date], Zero)

\* C16 (as claimed): a composer run on such inputs ends with an error and
\* writes no table, and no written row has an infinite or NaN spread.
C16_UndefinedEvaluationReported ==
    /\ (last_run.composer.status # "not run" /\ UndefinedEvaluation) =>
          /\ last_run.composer.status # "ok"
          /\ forecast = Absent
    /\ forecast # Absent =>
          \A i \in 1..Len(Run.rows) :
             /\ IsFinite(Run.rows[i].wholesale_spread_mwh)
             /\ Run.rows[i].spread_leading_the_way # NoneVal =>
                   IsFinite(Run.rows[i].spread_leading_the_way)
             /\ Run.rows[i].spread_falling_short # NoneVal =>
                   IsFinite(Run.rows[i].spread_falling_short)

\* C17 (as claimed): the forecast table changes only in a step taken while
\* the most recent calibration run is one that completed.
C17_NoForecastAfterFailedCalibration ==
    [][forecast' # forecast => last_run.spread_model.status = "ok"]_vars

\* The columns main writes for every month.
ForecastColumns ==
    {"date", "bess_gw", "wind_gen_gw", "wholesale_spread_mwh", "agile_spread_mwh", "agile_spread_p_kwh",
     "spread_leading_the_way", "spread_falling_short"}

\* C18 (as claimed): every row of the forecast table has, besides those
\* columns, two that hold the spreads at the row's base-case capacity with
\* alpha_low and with alpha_high.
C18_BandPersisted ==
    forecast # Absent =>
       \A i \in 1..Len(Run.rows) :
          \E k1, k2 \in DOMAIN Run.rows[i] \ ForecastColumns :
             /\ k1 # k2
             /\ Run.rows[i][k1] = Run.sensitivity[i].alpha_low
             /\ Run.rows[i][k2] = Run.sensitivity[i].alpha_high

\* C19 (as claimed): the parameters of every completed calibration satisfy
\* spread_ref > floor > 0, bess_ref > 0 and alpha, alpha_low, alpha_high > 0.
C19_CalibrationInvariant ==
    last_run.spread_model.status = "ok" =>
       /\ FLt(last_run.spread_model.params.floor, last_run.spread_model.params.spread_ref)
       /\ FLt(Zero, last_run.spread_model.params.floor)
       /\ FLt(Zero, last_run.spread_model.params.bess_ref)
       /\ last_run.spread_model.params.alpha > 0
       /\ last_run.spread_model.params.alpha_low > 0
       /\ last_run.spread_model.params.alpha_high > 0

\* C20 (as claimed): a regression on fewer observations than regressors ends
\* with an error and returns no coefficients.
C20_InsufficientDataFails ==
    ("ols_with_year" \in DOMAIN last_run.spread_model
     /\ last_run.spread_model.ols_with_year.nobs
           < Cardinality(last_run.spread_model.ols_with_year.regressors)) =>
        /\ last_run.spread_model.ols_with_year.status # "ok"
        /\ "month_coefs" \notin DOMAIN last_run.spread_model.ols_with_year


----------------------------------------------------------------------------
(* Properties of the wind projection                                       *)

\* A forecast row without its wind column.
WithoutWind(row) == [k \in DOMAIN row \ {"wind_gen_gw"} |-> row[k]]

\* The forecast rows a run on the present artifacts writes with the given
\* installed-capacity file, without their wind column.
RowsWithoutWind(ren_file) ==
    LET run == ComposerRun(LoadedParams(spread_params[1]), tariff_params[1],
                           bess_forecast[1], fes_scenarios, ren_file)
    IN Rows([i \in 1..Len(run.rows) |-> WithoutWind(run.rows[i])], Len(run.rows))

\* C21: the forecast table a composer run wrote has, in every column but
\* wind_gen_gw, the values a run on the same artifacts writes with any other
\* installed-capacity file (absent, or with other contents) it completes on.
C21_WindDoesNotReachSpreads ==
    forecast # Absent =>
       \A w \in ComposerWindFiles :
          ComposerStatus(spread_params, tariff_params, bess_forecast, w) = "ok" =>
             RowsWithoutWind(w) = Rows([i \in 1..Len(Run.rows) |-> WithoutWind(Run.rows[i])],
                                       Len(Run.rows))

\* A table written with the installed-capacity file present: its first wind
\* value is the projection, not the 6.8 GW written without the file.
C21_Witness ==
    /\ forecast # Absent
    /\ renewable_capacity_monthly # Absent
    /\ Run.rows[1].wind_gen_gw # Dec(68, 1)
    /\ IsFinite(Run.rows[1].wholesale_spread_mwh)
    /\ ComposerRun(LoadedParams(spread_params[1]), tariff_params[1], bess_forecast[1],
                   fes_scenarios, Absent).rows[1].wind_gen_gw = Dec(68, 1)


----------------------------------------------------------------------------
(* Properties of the forecast horizon                                      *)

\* C28: the forecast table has one row for each month from January 2026 to
\* December 2030, in order (60 rows), and the bess_gw of each is the System
\* Transformation capacity of its month in the scenario table.
C28_SixtyBaseCaseRows ==
    forecast # Absent =>
       /\ Len(Run.rows) = 60
       /\ \A i \in 1..Len(Run.rows) :
             /\ Run.rows[i].date = YM(2026, 1) + i - 1
             /\ Run.rows[i].bess_gw = fes_scenarios[1]["system_transformation"][Run.rows[i].date]
       /\ Run.rows[Len(Run.rows)].date = YM(2030, 12)

\* A forecast table whose last row is December 2030 with a base-case capacity
\* that is not Consumer Transformation's.
C28_Witness ==
    /\ forecast # Absent
    /\ fes_scenarios # Absent
    /\ Run.rows[Len(Run.rows)].date = YM(2030, 12)
    /\ Run.rows[Len(Run.rows)].bess_gw
          # fes_scenarios[1]["consumer_transformation"][YM(2030, 12)]
    /\ Run.rows[Len(Run.rows)].bess_gw
          = fes_scenarios[1]["system_transformation"][YM(2030, 12)]


----------------------------------------------------------------------------
(* A year of composer spreads at one capacity, on bounded inputs           *)

\* Month offsets of a strongly seasonal year: 20 * (m - 7) for months 2 to 12.
YearCoefs == SACoefs \cup {[m \in 2..12 |-> FMul(FInt(20), FInt(m - 7))]}

YearSpreadRefs == {FInt(63), Dec(903, 1), FInt(120)}

YearCaps == {FInt(5), FInt(13), FInt(20)}

\* The calibration parameters the composer has loaded.
YearParams(mc, s) ==
    [floor |-> Dec(135, 1), spread_ref |-> s, bess_ref |-> FInt(7),
     alpha |-> 50, alpha_low |-> 46, alpha_high |-> 65, month_coefs |-> mc]

YearInit ==
    /\ sa \in {[phase |-> "input", params |-> YearParams(mc, s), bess_gw |-> c,
                level |-> Zero, spreads |-> <<>>, factors |-> <<>>] :
                 mc \in YearCoefs, s \in YearSpreadRefs, c \in YearCaps}
    /\ pl = NoPL
    /\ FilesInit

\* main, lines 161 to 166, for the twelve months of 2026 at one capacity.
EvalYear ==
    /\ sa.phase = "input"
    /\ sa' = [sa EXCEPT
                !.phase = "done",
                !.level = power_law_spread(sa.bess_gw, sa.params.floor, sa.params.spread_ref,
                                           sa.params.bess_ref, sa.params.alpha),
                !.factors = Rows([m \in 1..12 |->
                                    seasonal_adjustment(m, sa.params.month_coefs,
                                                        sa.params.spread_ref)], 12),
                !.spreads = Rows([m \in 1..12 |->
                                    SeasonalSpread(sa.bess_gw, YM(2026, m), sa.params,
                                                   sa.params.alpha)], 12)]
    /\ UNCHANGED <<pl, fetcher, files>>

YearNext == EvalYear

SpecYear == YearInit /\ [][YearNext]_vars

\* The least exponent among the twelve spreads and the level.
YearMinExp == CHOOSE e \in {sa.spreads[m][2] : m \in 1..12} \cup {sa.level[2]} :
                 \A x \in {sa.spreads[m][2] : m \in 1..12} \cup {sa.level[2]} : e <= x

\* |sum of the twelve spreads - 12 * level|, in units of 2^YearMinExp.
YearDeviation ==
    Abs(SumScaled(sa.spreads, YearMinExp, 12) - 12 * sa.level[1] * 2^(sa.level[2] - YearMinExp))

YearMeanNearLevel ==
    LET mc   == sa.params.month_coefs
        exps == {sa.params.spread_ref[2]} \cup
                {Offset(mc, m)[2] : m \in {k \in 1..12 : Offset(mc, k) # Zero}}
        lo2  == CHOOSE e \in exps : \A x \in exps : e <= x
        r    == sa.params.spread_ref[1] * 2^(sa.params.spread_ref[2] - lo2)
        x    == SumAbsScaled(mc, lo2, 12)
        lev  == sa.level[1] * 2^(sa.level[2] - YearMinExp)
    IN YearDeviation * r * 2^Prec <= 48 * lev * (r + x)

\* No month's seasonal factor is negative, so no spread is clamped.
NoMonthClamped == \A m \in 1..12 : FLe(Zero, sa.factors[m])

----------------------------------------------------------------------------
(* Properties of the calibration                                           *)

Calibrated == last_run.spread_model.status = "ok"

MonthlyPanel == last_run.spread_model.monthly

\* The monthly rows with capacity of 6.0 GW or more.
Qualifying == {i \in 1..Len(MonthlyPanel) : FLe(Dec(60, 1), MonthlyPanel[i].bess_gw)}

LastSix == {i \in 1..Len(MonthlyPanel) : i > Len(MonthlyPanel) - 6}

\* The mean of a column over the rows of the monthly panel with these indexes.
WindowMean(W, column) ==
    SeqMean(Rows([k \in 1..Cardinality(W) |-> MonthlyPanel[Ascending(W)[k]][column]],
                 Cardinality(W)))

\* C23: spread_ref and bess_ref are the means of spread and capacity over the
\* monthly rows with capacity >= 6.0 GW when there are at least six of them,
\* and over the last six monthly rows otherwise.
C23_ReferenceWindow ==
    Calibrated =>
       LET W == IF Cardinality(Qualifying) >= 6 THEN Qualifying ELSE LastSix
       IN /\ last_run.spread_model.params.spread_ref = WindowMean(W, "spread")
          /\ last_run.spread_model.params.bess_ref = WindowMean(W, "bess_gw")

\* A calibration with seven qualifying months out of nine, whose reference
\* point is their mean and not the mean of the last six months.
C23_Witness ==
    /\ Calibrated
    /\ Cardinality(Qualifying) >= 6
    /\ Cardinality(Qualifying) < Len(MonthlyPanel)
    /\ Qualifying # LastSix
    /\ last_run.spread_model.params.spread_ref = WindowMean(Qualifying, "spread")
    /\ last_run.spread_model.params.spread_ref # WindowMean(LastSix, "spread")
    /\ last_run.spread_model.params.bess_ref = WindowMean(Qualifying, "bess_gw")

\* C24: the regression has generation as a regressor exactly when at least
\* half of the panel's days have a generation value.
C24_GenerationAtHalfCoverage ==
    ("ols_with_year" \in DOMAIN last_run.spread_model /\ Len(Panel) > 0) =>
       (<<"wind_gen_gw", 0>> \in last_run.spread_model.ols_with_year.regressors
          <=> 2 * Cardinality({i \in 1..Len(Panel) : Panel[i].has_wind}) >= Len(Panel))

\* C25: every month of the merged panel, with or without wind, is a row of the
\* monthly panel the reference point is taken from, and the reference point
\* is a number.
C25_MonthsWithoutWindUsed ==
    Calibrated =>
       /\ {MonthlyPanel[i].year_month : i \in 1..Len(MonthlyPanel)}
             = {Panel[i].date[1] : i \in 1..Len(Panel)}
       /\ IsFinite(last_run.spread_model.params.spread_ref)
       /\ IsFinite(last_run.spread_model.params.bess_ref)

\* C26: the saved month_coefs have an entry for each of the months 2 to 12
\* and none for month 1.
C26_MonthCoefsRelativeToJanuary ==
    Calibrated => DOMAIN last_run.spread_model.params.month_coefs = 2..12


----------------------------------------------------------------------------
(* Properties of the fetchers                                              *)

\* The days of January 2019 in a generation file, counted from START_DATE.
DaysOnDisk(file) == IF file = Absent THEN {} ELSE {d[2] - 1 : d \in file[1]}

\* The days of January 2019 in a market file, counted from START_DATE.
MarketDaysOnDisk(file) ==
    IF file = Absent THEN {} ELSE {file[1][i].date[2] - 1 : i \in 1..Len(file[1])}

\* C22: when the fetcher is interrupted, what it had retrieved is on disk.
C22_RetrievedIsOnDisk ==
    fetcher.phase = "interrupted" =>
       /\ fetcher.retrieved_generation \subseteq DaysOnDisk(daily_wind_solar_generation)
       /\ fetcher.retrieved_market \subseteq MarketDaysOnDisk(daily_elexon_wholesale)

\* The windows are consecutive, at most seven days long, none reaches past
\* end, and every day from start to end is in exactly one of them.
Covers(windows) ==
    /\ \A i \in 1..Len(windows) :
          /\ windows[i][1] <= windows[i][2]
          /\ windows[i][2] - windows[i][1] + 1 <= 7
          /\ fetcher.start <= windows[i][1]
          /\ windows[i][2] <= fetcher.end
    /\ \A i \in 1..(Len(windows) - 1) : windows[i + 1][1] = windows[i][2] + 1
    /\ \A d \in fetcher.start..fetcher.end :
          Cardinality({i \in 1..Len(windows) :
                          windows[i][1] <= d /\ d <= windows[i][2]}) = 1

\* C30: both chunk loops come to an end, and the windows each has requested
\* are consecutive, at most seven days long, and cover every day from start
\* to end exactly once.
C30_ChunkLoopsCover ==
    <>[](/\ fetcher.phase = "done"
         /\ Covers(fetcher.generation_windows)
         /\ Covers(fetcher.market_windows))

\* A finished run of three windows whose last one is cut at end.
C30_Witness ==
    /\ fetcher.phase = "done"
    /\ Len(fetcher.generation_windows) = 3
    /\ Len(fetcher.market_windows) = 3
    /\ fetcher.generation_windows[3][2] - fetcher.generation_windows[3][1] + 1 < 7
    /\ fetcher.market_windows[3][2] = fetcher.end
    /\ Covers(fetcher.generation_windows)
    /\ Covers(fetcher.market_windows)

====
